---- MODULE Spec2Model ----
(***************************************************************************)
(* Model of the per-tick simulation engine of cells-ai (src/src/world.rs,  *)
(* src/src/cell.rs, src/src/spatial_grid.rs).                              *)
(*                                                                         *)
(* Numbers.  Every f32 of the program is a fixed-point integer here:       *)
(*   energy, mass, chunk size      hundredths      (100.0  -> 10000)       *)
(*   species multiplier            hundredths      (0.9    -> 90)          *)
(*   lengths, positions, speeds    tenths          (15.0   -> 150)         *)
(*   age                           tenths          (0.1    -> 1)           *)
(*   angles                        centiradians    (TAU    -> 628)         *)
(*   frame times                   milliseconds    (2.0 s  -> 2000)        *)
(* A product or quotient is rounded to the nearest representable value, as *)
(* an f32 operation is (RoundDiv).                                         *)
(*                                                                         *)
(* Indices.  A Rust Vec index k is position k+1 of the TLA+ sequence.      *)
(* Option<T> is a sequence of length 0 (None) or 1 (Some).                 *)
(***************************************************************************)
EXTENDS Integers, Sequences, FiniteSets, TLC

VARIABLES
    cells,                  \* World.cells : Vec<Cell>
    grid,                   \* World.spatial_grid.buckets : bucket -> Vec<usize>
    max_cells,              \* World.max_cells
    frame_times,            \* World.frame_times : VecDeque<f32>
    last_adjustment_time,   \* World.last_adjustment_time
    current_fps,            \* World.current_fps (hundredths of a frame/s)
    best_cell_genome,       \* World.best_cell_genome : Option<Cell>
    last_best_cell_index,   \* World.last_best_cell_index : Option<usize>
    paused,                 \* World.paused
    simulation_speed,       \* World.simulation_speed (thousandths)
    initial_cell_count,     \* World.config.initial_cell_count
    storage,                \* the persisted best brain : Option<(brain, generation)>
    pc,                     \* position of World::update inside the tick
    pending,                \* agents the parallel update stage has not updated yet
    collisions,             \* check_collisions: the recorded transfers
    indices_to_remove,      \* check_collisions: the indices the pruning removed
    prev,                   \* the agent array as the stage that ran last found it
    saves,                  \* the save_best_neural_network calls of the last reproduction
    next_id,                \* next fresh agent identity
    best_id,                \* identity of the agent update_stats found fittest, 0 if none
    ticks,                  \* frames started so far
    keys_used,              \* frames in which a key was pressed so far
    nn,                     \* a NeuralNetwork taken on its own, None inside a World
    nn_calls,               \* the mutate calls made on nn so far
    nn_rate,                \* the rate of the last mutate call on nn (percent)
    body,                   \* the f32 position of a Cell taken on its own, None inside a World
    body_updates,           \* the Cell::update calls made on body so far
    nn_out,                 \* the last forward call on nn: its inputs and its result
    corpse,                 \* an agent followed on its own from its death on, None once removed
    corpse_pc               \* the stage of the tick that reaches that agent next

vars == <<cells, grid, max_cells, frame_times, last_adjustment_time, current_fps,
          best_cell_genome, last_best_cell_index, paused, simulation_speed,
          initial_cell_count, storage, pc, pending, collisions, indices_to_remove,
          prev, saves, next_id, best_id, ticks, keys_used, nn, nn_calls,
          nn_rate, body, body_updates, nn_out, corpse, corpse_pc>>

\* the variables of a network and of a position taken on their own
own_vars == <<nn, nn_calls, nn_rate, body, body_updates, nn_out, corpse, corpse_pc>>

-----------------------------------------------------------------------------
(* Bounds of the model *)

\* frames a behaviour runs
MaxTicks == 2
\* frames of a behaviour in which a key is pressed
MaxKeyFrames == 1
\* world size, tenths of a unit (config.rs: 8000 x 7000, demo 4000 x 3000);
\* the width leaves the last column of the grid partly outside the world
WorldWidth == 7050
WorldHeight == 7000
\* cap step, 100 in the source; the populations of the model are scaled with it
CELL_CAP_STEP == 2
\* mutate calls made on a network taken on its own
MaxMutations == 12
\* Cell::update calls made on a position taken on its own
MaxBodyUpdates == 2
\* clone-and-mutate steps between a brain and the forward calls on it
MaxClones == 1
\* inputs and outputs of a network taken on its own (20 and 4 in cell.rs)
NetInputs == 1
NetOutputs == 1
\* FPS window, 60 frames in the source
FPS_SAMPLE_SIZE == 2

-----------------------------------------------------------------------------
(* Program constants *)

\* world.rs
TARGET_MIN_FPS == 3000
TARGET_MAX_FPS == 24000
ADJUSTMENT_INTERVAL == 2000
SENSOR_RANGE == 2000
SENSOR_COUNT == 5
REPRODUCTION_ENERGY_THRESHOLD == 10000
DEPLETED_CELL_ENERGY == -10000
RESPAWN_ENERGY == 10000
FALLBACK_FPS == 6000
BUCKET_SIZE == 1000
\* cell.rs
METABOLISM_ENERGY_LOSS == 3
CORPSE_DECAY_RATE == 2
TURN_ENERGY_COST == 45
FORWARD_ENERGY_COST == 90
GROWTH_AGE_THRESHOLD == 200
ADULT_AGE_THRESHOLD == 300
MAX_AGE_FOR_COST == 1000
SPAWN_ENERGY == 10000
CHILD_OFFSET == 150
TAU == 628

-----------------------------------------------------------------------------
(* Fixed-point arithmetic *)

Abs(a) == IF a < 0 THEN -a ELSE a
Min(a, b) == IF a < b THEN a ELSE b
Max(a, b) == IF a > b THEN a ELSE b
Clamp(v, lo, hi) == IF v < lo THEN lo ELSE IF v > hi THEN hi ELSE v

\* a / b rounded to the nearest integer, halves away from zero (b > 0)
RoundDiv(a, b) == IF a >= 0 THEN (2 * a + b) \div (2 * b)
                            ELSE -((2 * (-a) + b) \div (2 * b))

\* a / b truncated toward zero (b > 0)
TruncDiv(a, b) == IF a >= 0 THEN a \div b ELSE -((-a) \div b)

\* ceil(a / b) for a >= 0, b > 0
CeilDiv(a, b) == (a + b - 1) \div b

\* f32::rem_euclid
RemEuclid(a, m) == a % m

\* cos and sin of an angle, in hundredths, on the eight compass headings
Octant(angle) == (((angle % TAU) * 8 + (TAU \div 2)) \div TAU) % 8
Cos100(angle) == <<100, 71, 0, -71, -100, -71, 0, 71>>[Octant(angle) + 1]
Sin100(angle) == <<0, 71, 100, 71, 0, -71, -100, -71>>[Octant(angle) + 1]

None == <<>>
Some(v) == <<v>>
IsSome(o) == Len(o) = 1
Unwrap(o) == o[1]

-----------------------------------------------------------------------------
(* Heritable trait ranges (cell.rs, Cell::spawn and Cell::spawn_child) *)

SPEED_MIN == 10
SPEED_MAX == 30
RADIUS_MIN == 60
RADIUS_MAX == 150
PROBABILITY_MIN == 5
PROBABILITY_MAX == 15
TURN_RATE_MIN == 5
TURN_RATE_MAX == 15
CHUNK_MIN == 4500
CHUNK_MAX == 5500
MULTIPLIER_MIN == 90
MULTIPLIER_MAX == 200
MASS_MIN == 18000
MASS_MAX == 22000
\* neural_network.rs: weights and biases are clamped to [-2, 2] (tenths here)
WEIGHT_LIMIT == 20
\* cell.rs: MIN_RADIUS_PERCENT, thousandths
MIN_RADIUS_PERCENT == 100
\* cell.rs: MAX_AGE_COST_MULTIPLIER, thousandths
MAX_AGE_COST_MULTIPLIER == 2000
\* cell.rs: the reference mass of the drag, 200.0
DRAG_REFERENCE_MASS == 20000
\* cell.rs: the least slowdown factor 0.5, thousandths
MIN_SLOWDOWN == 500
\* cell.rs: friction factors, hundredths
LINEAR_FRICTION == 95
ANGULAR_FRICTION == 90

Alive == "Alive"
Corpse == "Corpse"

-----------------------------------------------------------------------------
(* NeuralNetwork.  At the level of the world a brain is the vector of its   *)
(* four output biases (tenths); its hidden-to-output weights are held at 0, *)
(* so that forward(inputs) = bias_o whatever the sensors read.              *)

Forward(brain) == brain

\* an argmax that keeps the first of several equal maxima
GetBestActionFirst(brain) ==
    LET out == Forward(brain)
        best == CHOOSE i \in 1..Len(out) :
                    /\ \A j \in 1..Len(out) : out[j] <= out[i]
                    /\ \A j \in 1..(i - 1) : out[j] < out[i]
    IN best - 1

\* Iterator::max_by keeps the last of several equal maxima
GetBestAction(brain) ==
    LET out == Forward(brain)
        best == CHOOSE i \in 1..Len(out) :
                    /\ \A j \in 1..Len(out) : out[j] <= out[i]
                    /\ \A j \in (i + 1)..Len(out) : out[j] < out[i]
    IN best - 1

\* mutate(rate): bias i is perturbed by delta[i] when its draw u[i] is below
\* the rate (percent), then clamped
MutateBrain(brain, rate, u, delta) ==
    [i \in 1..Len(brain) |->
        IF u[i] < Clamp(rate, 0, 100)
        THEN Clamp(brain[i] + delta[i], -WEIGHT_LIMIT, WEIGHT_LIMIT)
        ELSE brain[i]]

-----------------------------------------------------------------------------
(* NeuralNetwork taken on its own: the four arrays and the three sizes.     *)
(* Weights and biases are in hundredths, rates and draws against the rate   *)
(* in percent.  A draw gives every element its value by the parity of its   *)
(* position: d.u and d.delta hold the value for even and for odd positions. *)

\* the clamp of mutate: [-2.0, 2.0]
NN_LIMIT == 200

Parity(i) == (i % 2) + 1

\* NeuralNetwork::new; r holds the gen_range(-1.0, 1.0) results
NewNetwork(input_size, output_size, r) ==
    LET hidden_size == 2 * (input_size + output_size)
    IN [weights_ih |-> [i \in 1..hidden_size |->
                           [j \in 1..input_size |-> r[Parity(i + j)]]],
        bias_h |-> [i \in 1..hidden_size |-> r[Parity(i)]],
        weights_ho |-> [i \in 1..output_size |->
                           [j \in 1..hidden_size |-> r[Parity(i + j)]]],
        bias_o |-> [i \in 1..output_size |-> r[Parity(i)]],
        input_size |-> input_size,
        hidden_size |-> hidden_size,
        output_size |-> output_size]

\* one element of a mutate call, clamped or not by its last argument
MutateElement(w, rate, u, delta, limit) ==
    IF u < rate THEN Clamp(w + delta, -limit, limit) ELSE w

\* a mutate that perturbs every element whatever the rate
MutateNetworkAlways(n, rate, d) ==
    LET m(w, k) == MutateElement(w, 101, d.u[Parity(k)], d.delta[Parity(k)], NN_LIMIT)
    IN [n EXCEPT
           !.weights_ih = [i \in 1..n.hidden_size |->
                              [j \in 1..n.input_size |-> m(n.weights_ih[i][j], i + j)]],
           !.bias_h = [i \in 1..n.hidden_size |-> m(n.bias_h[i], i)],
           !.weights_ho = [i \in 1..n.output_size |->
                              [j \in 1..n.hidden_size |-> m(n.weights_ho[i][j], i + j)]],
           !.bias_o = [i \in 1..n.output_size |-> m(n.bias_o[i], i)]]

\* a mutate that does not clamp the perturbed element
MutateNetworkUnclamped(n, rate, d) ==
    LET m(w, k) == MutateElement(w, Clamp(rate, 0, 100), d.u[Parity(k)],
                                 d.delta[Parity(k)], 100 * NN_LIMIT)
    IN [n EXCEPT
           !.weights_ih = [i \in 1..n.hidden_size |->
                              [j \in 1..n.input_size |-> m(n.weights_ih[i][j], i + j)]],
           !.bias_h = [i \in 1..n.hidden_size |-> m(n.bias_h[i], i)],
           !.weights_ho = [i \in 1..n.output_size |->
                              [j \in 1..n.hidden_size |-> m(n.weights_ho[i][j], i + j)]],
           !.bias_o = [i \in 1..n.output_size |-> m(n.bias_o[i], i)]]

\* NeuralNetwork::mutate
MutateNetwork(n, rate, d) ==
    LET m(w, k) == MutateElement(w, Clamp(rate, 0, 100), d.u[Parity(k)],
                                 d.delta[Parity(k)], NN_LIMIT)
    IN [n EXCEPT
           !.weights_ih = [i \in 1..n.hidden_size |->
                              [j \in 1..n.input_size |-> m(n.weights_ih[i][j], i + j)]],
           !.bias_h = [i \in 1..n.hidden_size |-> m(n.bias_h[i], i)],
           !.weights_ho = [i \in 1..n.output_size |->
                              [j \in 1..n.hidden_size |-> m(n.weights_ho[i][j], i + j)]],
           !.bias_o = [i \in 1..n.output_size |-> m(n.bias_o[i], i)]]

\* relu
Relu(x) == Max(x, 0)

\* sum += weights[j] * values[j] for the first `size` entries of values;
\* values are in thousandths when scale is 1000 and in hundredths when 100
RECURSIVE WeightedSum(_, _, _, _, _)
WeightedSum(weights, values, size, scale, j) ==
    IF j > Min(Len(values), size)
    THEN 0
    ELSE RoundDiv(weights[j] * values[j], scale)
         + WeightedSum(weights, values, size, scale, j + 1)

\* the two layers of forward, without its assertion
Layers(n, inputs) ==
    LET hidden == [i \in 1..n.hidden_size |->
                      Relu(n.bias_h[i]
                           + WeightedSum(n.weights_ih[i], inputs, n.input_size, 1000, 1))]
    IN [i \in 1..n.output_size |->
           n.bias_o[i] + WeightedSum(n.weights_ho[i], hidden, n.hidden_size, 100, 1)]

\* a forward without the assertion on the number of inputs
ForwardUnchecked(n, inputs) == [aborted |-> FALSE, outputs |-> Layers(n, inputs)]

\* NeuralNetwork::forward: the assertion fails, or the outputs are returned
ForwardNetwork(n, inputs) ==
    IF Len(inputs) # n.input_size
    THEN [aborted |-> TRUE, outputs |-> <<>>]
    ELSE [aborted |-> FALSE, outputs |-> Layers(n, inputs)]

-----------------------------------------------------------------------------
(* Cell *)

\* a mutation that is not clamped
MutateUnclamped(value, variance, lo, hi) == RoundDiv(value * (1000 + variance), 1000)

\* Cell::mutate: value * (1 + variance), variance in thousandths, clamped
Mutate(value, variance, lo, hi) ==
    Clamp(RoundDiv(value * (1000 + variance), 1000), lo, hi)

GetCurrentRadius(c) ==
    IF c.age < ADULT_AGE_THRESHOLD
    THEN LET size_percent ==
                 MIN_RADIUS_PERCENT
                 + RoundDiv(c.age * (1000 - MIN_RADIUS_PERCENT), ADULT_AGE_THRESHOLD)
         IN RoundDiv(c.radius * size_percent, 1000)
    ELSE c.radius

\* thousandths
GetAgeCostMultiplier(c) ==
    1000 + RoundDiv(Min(c.age, MAX_AGE_FOR_COST) * (MAX_AGE_COST_MULTIPLIER - 1000),
                    MAX_AGE_FOR_COST)

TurnCost(c) == RoundDiv(TURN_ENERGY_COST * GetAgeCostMultiplier(c), 1000)
ForwardCost(c) == RoundDiv(FORWARD_ENERGY_COST * GetAgeCostMultiplier(c), 1000)

\* a left turn that an agent short of energy still makes, without paying
TurnLeftUnpaid(c) ==
    IF c.energy >= TurnCost(c)
    THEN [c EXCEPT !.angle_velocity = @ - c.turn_rate, !.energy = @ - TurnCost(c)]
    ELSE [c EXCEPT !.angle_velocity = @ - c.turn_rate]

TurnLeft(c) ==
    IF c.energy >= TurnCost(c)
    THEN [c EXCEPT !.angle_velocity = @ - c.turn_rate, !.energy = @ - TurnCost(c)]
    ELSE c

TurnRight(c) ==
    IF c.energy >= TurnCost(c)
    THEN [c EXCEPT !.angle_velocity = @ + c.turn_rate, !.energy = @ - TurnCost(c)]
    ELSE c

MoveForward(c) ==
    IF c.energy >= ForwardCost(c)
    THEN [c EXCEPT !.velocity_x = RoundDiv(Cos100(c.angle) * c.speed, 100),
                   !.velocity_y = RoundDiv(Sin100(c.angle) * c.speed, 100),
                   !.energy = @ - ForwardCost(c)]
    ELSE c

DecideAction(c) ==
    LET action == GetBestAction(c.brain)
    IN CASE action = 1 -> TurnLeft(c)
         [] action = 2 -> TurnRight(c)
         [] action = 3 -> MoveForward(c)
         [] OTHER -> c

\* the state transition at the head of Cell::update
UpdateState(c) ==
    IF c.state = Alive /\ c.energy <= 0 THEN [c EXCEPT !.state = Corpse] ELSE c

\* an age that also runs for a Corpse
UpdateAgeOfAny(c) == [c EXCEPT !.age = @ + 1]

UpdateAge(c) == IF c.state = Alive THEN [c EXCEPT !.age = @ + 1] ELSE c

\* an energy that is left above the mass
CapEnergyOff(c) == c

CapEnergy(c) == IF c.energy > c.mass THEN [c EXCEPT !.energy = c.mass] ELSE c

\* an update in which a Corpse does not decay
UpdateEnergyOfAlive(c) ==
    IF c.state = Alive
    THEN DecideAction([c EXCEPT !.energy = @ - METABOLISM_ENERGY_LOSS])
    ELSE c

UpdateEnergy(c) ==
    IF c.state = Alive
    THEN DecideAction([c EXCEPT !.energy = @ - METABOLISM_ENERGY_LOSS])
    ELSE [c EXCEPT !.energy = @ - CORPSE_DECAY_RATE]

\* thousandths
Slowdown(c) == Max(RoundDiv(DRAG_REFERENCE_MASS * 1000, c.mass), MIN_SLOWDOWN)

Integrate(c, world_width, world_height) ==
    [c EXCEPT
        !.x = RemEuclid(c.x + RoundDiv(c.velocity_x * Slowdown(c), 1000), world_width),
        !.y = RemEuclid(c.y + RoundDiv(c.velocity_y * Slowdown(c), 1000), world_height),
        !.angle = c.angle + c.angle_velocity,
        !.velocity_x = TruncDiv(c.velocity_x * LINEAR_FRICTION, 100),
        !.velocity_y = TruncDiv(c.velocity_y * LINEAR_FRICTION, 100),
        !.angle_velocity = TruncDiv(c.angle_velocity * ANGULAR_FRICTION, 100)]

\* Cell::update
CellUpdate(c, world_width, world_height) ==
    Integrate(UpdateEnergy(CapEnergy(UpdateAge(UpdateState(c)))),
              world_width, world_height)

\* a gain that is stored at every age
GainEnergyStored(c, amount) ==
    [c EXCEPT !.total_energy_accumulated = @ + amount, !.energy = @ + amount]

\* Cell::gain_energy
GainEnergy(c, amount) ==
    LET tracked == [c EXCEPT !.total_energy_accumulated = @ + amount]
    IN IF c.age < GROWTH_AGE_THRESHOLD
       THEN tracked
       ELSE [tracked EXCEPT !.energy = @ + amount]

\* a child that is a copy of its parent, statistics and sensors included
SpawnChildAsCopy(p, d, id) == [p EXCEPT !.id = id, !.parent = p.id, !.energy = 0]

\* Cell::spawn_child; d holds the random draws of one call, id is the
\* identity of the new agent (not a field of the program)
SpawnChild(p, d, id) ==
    LET mutated_speed == Mutate(p.speed, d.variance[1], SPEED_MIN, SPEED_MAX)
    IN [id |-> id,
        parent |-> p.id,
        x |-> p.x + RoundDiv(Cos100(d.heading) * CHILD_OFFSET, 100),
        y |-> p.y + RoundDiv(Sin100(d.heading) * CHILD_OFFSET, 100),
        velocity_x |-> RoundDiv(Cos100(d.heading) * mutated_speed * d.vfx, 10000),
        velocity_y |-> RoundDiv(Sin100(d.heading) * mutated_speed * d.vfy, 10000),
        energy |-> 0,
        angle |-> d.angle,
        angle_velocity |-> d.angle_velocity,
        state |-> Alive,
        age |-> 0,
        total_energy_accumulated |-> 0,
        children_count |-> 0,
        generation |-> p.generation + 1,
        nearest_cells |-> <<>>,
        brain |-> MutateBrain(p.brain, d.rate, d.u, d.delta),
        radius |-> Mutate(p.radius, d.variance[2], RADIUS_MIN, RADIUS_MAX),
        move_probability |-> Mutate(p.move_probability, d.variance[3],
                                    PROBABILITY_MIN, PROBABILITY_MAX),
        turn_probability |-> Mutate(p.turn_probability, d.variance[4],
                                    PROBABILITY_MIN, PROBABILITY_MAX),
        speed |-> mutated_speed,
        turn_rate |-> Mutate(p.turn_rate, d.variance[5], TURN_RATE_MIN, TURN_RATE_MAX),
        energy_chunk_size |-> Mutate(p.energy_chunk_size, d.variance[6],
                                     CHUNK_MIN, CHUNK_MAX),
        species_multiplier |-> Mutate(p.species_multiplier, d.variance[7],
                                      MULTIPLIER_MIN, MULTIPLIER_MAX),
        mass |-> Mutate(p.mass, d.variance[8], MASS_MIN, MASS_MAX)]

-----------------------------------------------------------------------------
(* SpatialGrid *)

GridWidth == CeilDiv(WorldWidth, BUCKET_SIZE)
GridHeight == CeilDiv(WorldHeight, BUCKET_SIZE)
BucketCount == GridWidth * GridHeight

\* `as usize` of an f32: a negative value saturates to 0
AsUsize(v) == IF v < 0 THEN 0 ELSE v

\* SpatialGrid::new, SpatialGrid::clear
EmptyGrid == [b \in 0..(BucketCount - 1) |-> <<>>]

GetBucketIndex(x, y) ==
    LET grid_x == AsUsize(x \div BUCKET_SIZE) % GridWidth
        grid_y == AsUsize(y \div BUCKET_SIZE) % GridHeight
    IN grid_y * GridWidth + grid_x

\* an insert that leaves a second copy of the index in the first bucket
InsertTwice(buckets, x, y, cell_index) ==
    [buckets EXCEPT ![GetBucketIndex(x, y)] = Append(@, cell_index),
                    ![0] = Append(@, cell_index)]

Insert(buckets, x, y, cell_index) ==
    [buckets EXCEPT ![GetBucketIndex(x, y)] = Append(@, cell_index)]

RECURSIVE InsertFrom(_, _, _)
InsertFrom(buckets, cs, k) ==
    IF k > Len(cs) THEN buckets
    ELSE InsertFrom(Insert(buckets, cs[k].x, cs[k].y, k), cs, k + 1)

\* World::rebuild_spatial_grid
RebuildSpatialGrid(cs) == InsertFrom(EmptyGrid, cs, 1)

\* the buckets query_nearby visits, in the order of its two loops
RECURSIVE VisitFrom(_, _, _, _, _)
VisitFrom(buckets, grid_x, grid_y, bucket_range, k) ==
    LET side == 2 * bucket_range + 1
        dy == (k \div side) - bucket_range
        dx == (k % side) - bucket_range
        wrapped_x == RemEuclid(grid_x + dx, GridWidth)
        wrapped_y == RemEuclid(grid_y + dy, GridHeight)
    IN IF k >= side * side THEN <<>>
       ELSE buckets[wrapped_y * GridWidth + wrapped_x]
            \o VisitFrom(buckets, grid_x, grid_y, bucket_range, k + 1)

\* a query that visits the buckets within ceil(radius / bucket_size) of
\* the query point's bucket, without the one bucket of margin
QueryNearbyNoMargin(buckets, x, y, radius) ==
    VisitFrom(buckets, x \div BUCKET_SIZE, y \div BUCKET_SIZE,
              CeilDiv(radius, BUCKET_SIZE), 0)

\* a query with two buckets of margin
QueryNearbyWide(buckets, x, y, radius) ==
    VisitFrom(buckets, x \div BUCKET_SIZE, y \div BUCKET_SIZE,
              CeilDiv(radius, BUCKET_SIZE) + 2, 0)

\* SpatialGrid::query_nearby
QueryNearby(buckets, x, y, radius) ==
    VisitFrom(buckets, x \div BUCKET_SIZE, y \div BUCKET_SIZE,
              CeilDiv(radius, BUCKET_SIZE) + 1, 0)

-----------------------------------------------------------------------------
(* World: collisions *)

\* the displacement a - b on the torus of circumference size
WrapDelta(a, b, size) ==
    LET d == a - b
    IN IF 2 * Abs(d) > size THEN (IF d > 0 THEN d - size ELSE d + size) ELSE d

DistanceSquared(a, b) ==
    LET dx == WrapDelta(a.x, b.x, WorldWidth)
        dy == WrapDelta(a.y, b.y, WorldHeight)
    IN dx * dx + dy * dy

Overlaps(a, b) ==
    LET collision_distance == GetCurrentRadius(a) + GetCurrentRadius(b)
    IN DistanceSquared(a, b) < collision_distance * collision_distance

\* candidates that are taken whatever their state
QualifyingAnyState(cs, buckets, i) ==
    SelectSeq(QueryNearby(buckets, cs[i].x, cs[i].y, GetCurrentRadius(cs[i]) * 3),
              LAMBDA j : j # i /\ Overlaps(cs[i], cs[j]))

\* candidates tested on the distance in the plane, without the wrap-around
QualifyingInThePlane(cs, buckets, i) ==
    SelectSeq(QueryNearby(buckets, cs[i].x, cs[i].y, GetCurrentRadius(cs[i]) * 3),
              LAMBDA j : /\ j # i
                         /\ cs[j].state # Alive
                         /\ LET dx == cs[i].x - cs[j].x
                                dy == cs[i].y - cs[j].y
                                sum == GetCurrentRadius(cs[i]) + GetCurrentRadius(cs[j])
                            IN dx * dx + dy * dy < sum * sum)

\* the candidates of agent i that qualify for a transfer, in query order
Qualifying(cs, buckets, i) ==
    SelectSeq(QueryNearby(buckets, cs[i].x, cs[i].y, GetCurrentRadius(cs[i]) * 3),
              LAMBDA j : /\ j # i
                         /\ cs[j].state # Alive
                         /\ Overlaps(cs[i], cs[j]))

\* a detection that lets a Corpse take a transfer as well
DetectOneOfAny(cs, buckets, i) ==
    IF Qualifying(cs, buckets, i) = <<>>
    THEN <<>>
    ELSE << <<i, Head(Qualifying(cs, buckets, i)),
              cs[i].energy_chunk_size, cs[i].species_multiplier>> >>

\* the transfer agent i records, if any: the first qualifying candidate
DetectOne(cs, buckets, i) ==
    IF cs[i].state = Corpse \/ Qualifying(cs, buckets, i) = <<>>
    THEN <<>>
    ELSE << <<i, Head(Qualifying(cs, buckets, i)),
              cs[i].energy_chunk_size, cs[i].species_multiplier>> >>

RECURSIVE DetectFrom(_, _, _)
DetectFrom(cs, buckets, i) ==
    IF i > Len(cs) THEN <<>>
    ELSE DetectOne(cs, buckets, i) \o DetectFrom(cs, buckets, i + 1)

\* check_collisions, the detection: (alive, corpse, chunk_size, multiplier)
DetectCollisions(cs, buckets) == DetectFrom(cs, buckets, 1)

ApplyTransfer(cs, t) ==
    LET gained == [cs EXCEPT ![t[1]] = GainEnergy(@, RoundDiv(t[3] * t[4], 100))]
    IN [gained EXCEPT ![t[2]].energy = @ - t[3]]

RECURSIVE ApplyFrom(_, _, _)
ApplyFrom(cs, ts, k) ==
    IF k > Len(ts) THEN cs ELSE ApplyFrom(ApplyTransfer(cs, ts[k]), ts, k + 1)

\* check_collisions, the sequential application of the recorded transfers
ApplyTransfers(cs, ts) == ApplyFrom(cs, ts, 1)

\* check_collisions: the indices of the depleted agents, ascending
\* a pruning whose floor is 0
IndicesToRemoveBelowZero(cs) ==
    SelectSeq([i \in 1..Len(cs) |-> i], LAMBDA i : cs[i].energy < 0)

\* check_collisions: the indices of the agents below the floor, ascending
IndicesToRemove(cs) ==
    SelectSeq([i \in 1..Len(cs) |-> i], LAMBDA i : cs[i].energy < DEPLETED_CELL_ENERGY)

\* Vec::swap_remove
SwapRemove(cs, idx) ==
    LET last == Len(cs)
        shorter == SubSeq(cs, 1, last - 1)
    IN IF idx = last THEN shorter ELSE [shorter EXCEPT ![idx] = cs[last]]

\* a pruning that visits the indices in ascending order
RemovalOrderAscending(idxs) == idxs

\* the order in which the pruning visits the indices: descending
RemovalOrder(idxs) == [k \in 1..Len(idxs) |-> idxs[Len(idxs) + 1 - k]]

RECURSIVE RemoveFrom(_, _, _)
RemoveFrom(cs, order, k) ==
    IF k > Len(order) THEN cs ELSE RemoveFrom(SwapRemove(cs, order[k]), order, k + 1)

\* check_collisions, the pruning
Prune(cs) == RemoveFrom(cs, RemovalOrder(IndicesToRemove(cs)), 1)

-----------------------------------------------------------------------------
(* World: reproduction, bookkeeping, respawn, frame rate *)

\* CHILD_ENERGY_RATIO = 2/3 and PARENT_ENERGY_RATIO = 1/3 of the total
ChildEnergy(total_energy) == RoundDiv(total_energy * 2, 3)
\* a parent that keeps half of the total
ParentEnergyHalf(total_energy) == RoundDiv(total_energy, 2)

ParentEnergy(total_energy) == RoundDiv(total_energy, 3)

\* the test handle_reproduction makes of an agent before it looks at the cap
WantsChild(c) == c.energy > REPRODUCTION_ENERGY_THRESHOLD

\* a cap that lets the population go one above it
CapReachedStrict(projected_count, cap) == projected_count > cap

\* the test handle_reproduction makes of the cap
CapReached(projected_count, cap) == projected_count >= cap

\* handle_reproduction, from index k on; r carries the loop's state
RECURSIVE ReproduceFrom(_, _, _, _, _, _, _)
ReproduceFrom(r, k, current_cell_count, cap, best_cell_idx, draws, id0) ==
    IF k > Len(r.cells) THEN r
    ELSE LET cell == r.cells[k]
             n == Len(r.new_cells)
         IN IF ~WantsChild(cell) \/ CapReached(current_cell_count + n, cap)
            THEN ReproduceFrom(r, k + 1, current_cell_count, cap, best_cell_idx,
                               draws, id0)
            ELSE LET child == [SpawnChild(cell, draws[n + 1], id0 + n)
                                  EXCEPT !.energy = ChildEnergy(cell.energy)]
                     parent == [cell EXCEPT !.energy = ParentEnergy(cell.energy),
                                            !.children_count = @ + 1]
                 IN ReproduceFrom(
                        [cells |-> [r.cells EXCEPT ![k] = parent],
                         new_cells |-> Append(r.new_cells, child),
                         saves |-> IF Some(k) = best_cell_idx
                                   THEN Append(r.saves, <<parent.brain, parent.generation>>)
                                   ELSE r.saves],
                        k + 1, current_cell_count, cap, best_cell_idx, draws, id0)

\* World::handle_reproduction
HandleReproduction(cs, cap, best_cell_idx, draws, id0) ==
    LET r == ReproduceFrom([cells |-> cs, new_cells |-> <<>>, saves |-> <<>>],
                           1, Len(cs), cap, best_cell_idx, draws, id0)
    IN [cells |-> r.cells \o r.new_cells, saves |-> r.saves]

\* the most children handle_reproduction creates, i.e. the most draws it takes
BirthCount(cs) == Cardinality({k \in 1..Len(cs) : WantsChild(cs[k])})

\* update_stats and stats.rs: total_energy_accumulated + 100 * children_count
Fitness(c) == c.total_energy_accumulated + c.children_count * 10000

\* update_stats: the first Alive agent of the highest fitness, if any
BestCellIndex(cs) ==
    LET alive == {i \in 1..Len(cs) : cs[i].state = Alive}
    IN IF alive = {} THEN None
       ELSE Some(CHOOSE i \in alive :
                    /\ \A j \in alive : Fitness(cs[j]) <= Fitness(cs[i])
                    /\ \A j \in alive : j < i => Fitness(cs[j]) < Fitness(cs[i]))

\* a bookkeeping that drops the genome when it finds no Alive agent
NextGenomeOrNone(cs, genome, last_index) ==
    LET best == BestCellIndex(cs)
    IN IF IsSome(best)
       THEN (IF last_index # best THEN Some(cs[Unwrap(best)]) ELSE genome)
       ELSE None

\* update_stats: the genome is cloned only when the best index changes
NextGenome(cs, genome, last_index) ==
    LET best == BestCellIndex(cs)
    IN IF IsSome(best) /\ last_index # best THEN Some(cs[Unwrap(best)]) ELSE genome

AliveCount(cs) == Cardinality({i \in 1..Len(cs) : cs[i].state = Alive})

\* a respawn that ignores the cap
SpawnCountInitial(cap, initial) == initial

\* respawn_from_best: the number of agents it creates
SpawnCount(cap, initial) == Min(cap, initial)

\* respawn_from_best: the new population
RespawnFromBest(best_cell, spawn_count, draws, id0) ==
    [k \in 1..spawn_count |->
        [SpawnChild(best_cell, draws[k], id0 + k - 1)
            EXCEPT !.x = draws[k].px, !.y = draws[k].py, !.energy = RESPAWN_ENERGY]]

RECURSIVE SumSeq(_)
SumSeq(q) == IF q = <<>> THEN 0 ELSE Head(q) + SumSeq(Tail(q))

\* a window that drops the frame time just pushed once it is full
PushFrameKeepOldest(window, delta_time) ==
    IF Len(window) >= FPS_SAMPLE_SIZE THEN window ELSE Append(window, delta_time)

\* update_fps: the window after delta_time has been pushed
PushFrame(window, delta_time) ==
    LET pushed == Append(window, delta_time)
    IN IF Len(pushed) > FPS_SAMPLE_SIZE
       THEN SubSeq(pushed, Len(pushed) - FPS_SAMPLE_SIZE + 1, Len(pushed))
       ELSE pushed

\* update_fps: 1 / average frame time, hundredths of a frame per second
FpsOf(window) ==
    IF SumSeq(window) > 0
    THEN RoundDiv(100 * 1000 * Len(window), SumSeq(window))
    ELSE FALLBACK_FPS

\* a cap that is raised at every frame rate that is not too low
AdjustedCapNoBand(cap, fps) ==
    IF fps < TARGET_MIN_FPS
    THEN (IF cap > CELL_CAP_STEP THEN cap - CELL_CAP_STEP ELSE cap)
    ELSE cap + CELL_CAP_STEP

\* adjust_cell_cap: the cap once the interval has elapsed
AdjustedCap(cap, fps) ==
    IF fps < TARGET_MIN_FPS
    THEN (IF cap > CELL_CAP_STEP THEN cap - CELL_CAP_STEP ELSE cap)
    ELSE IF fps > TARGET_MAX_FPS THEN cap + CELL_CAP_STEP ELSE cap

\* handle_keyboard_input: the speed keys, thousandths
SpeedAfter(speed, keys) ==
    LET up == IF "Equal" \in keys THEN Min(RoundDiv(speed * 3, 2), 8000) ELSE speed
        down == IF "Minus" \in keys THEN Max(RoundDiv(up * 2, 3), 125) ELSE up
    IN IF "Key1" \in keys THEN 1000 ELSE down

-----------------------------------------------------------------------------
(* World: sensors *)

PI == 314

\* the integer nearest to the square root of n, searched in lo..hi
RECURSIVE SqrtBetween(_, _, _)
SqrtBetween(n, lo, hi) ==
    IF lo >= hi THEN lo
    ELSE LET mid == (lo + hi + 1) \div 2
         IN IF mid * mid - mid < n
            THEN SqrtBetween(n, mid, hi)
            ELSE SqrtBetween(n, lo, mid - 1)

Sqrt(n) == SqrtBetween(n, 0, WorldWidth + WorldHeight)

\* atan2 on the eight compass headings, centiradians in (-PI, PI]
Atan2(dy, dx) ==
    LET ax == Abs(dx)
        ay == Abs(dy)
    IN CASE 2 * ay <= ax -> (IF dx >= 0 THEN 0 ELSE PI)
         [] 2 * ax <= ay -> (IF dy > 0 THEN 157 ELSE -157)
         [] dx > 0 -> (IF dy > 0 THEN 79 ELSE -79)
         [] OTHER -> (IF dy > 0 THEN 236 ELSE -236)

\* the two while loops that bring an angle into [-PI, PI]
RECURSIVE NormalizeAngle(_)
NormalizeAngle(a) ==
    IF a > PI THEN NormalizeAngle(a - TAU)
    ELSE IF a < -PI THEN NormalizeAngle(a + TAU)
    ELSE a

\* the reading agent i takes of candidate j: (index, angle, distance, mass, is_alive)
Reading(cs, i, j) ==
    LET dx == WrapDelta(cs[j].x, cs[i].x, WorldWidth)
        dy == WrapDelta(cs[j].y, cs[i].y, WorldHeight)
    IN <<j, NormalizeAngle(Atan2(dy, dx) - cs[i].angle), Sqrt(dx * dx + dy * dy),
         cs[j].mass, IF cs[j].state = Alive THEN 1 ELSE 0>>

\* the candidates update_sensors keeps for agent i, in query order
InRange(cs, buckets, i) ==
    LET nearby == QueryNearby(buckets, cs[i].x, cs[i].y, SENSOR_RANGE)
        kept == SelectSeq(nearby, LAMBDA j : /\ j # i
                                             /\ j <= Len(cs)
                                             /\ DistanceSquared(cs[j], cs[i])
                                                    <= SENSOR_RANGE * SENSOR_RANGE)
    IN [k \in 1..Len(kept) |-> Reading(cs, i, kept[k])]

\* the comparison of the partial sort: dead first, then more energy, then nearer
Before(cs, a, b) ==
    \/ a[5] < b[5]
    \/ a[5] = b[5] /\ cs[a[1]].energy > cs[b[1]].energy
    \/ a[5] = b[5] /\ cs[a[1]].energy = cs[b[1]].energy /\ a[3] < b[3]

\* the first SENSOR_COUNT readings of the priority order; readings that the
\* comparison does not separate keep their query order
TopReadings(cs, data) ==
    LET rank(k) == 1 + Cardinality({m \in 1..Len(data) :
                        \/ Before(cs, data[m], data[k])
                        \/ ~Before(cs, data[k], data[m]) /\ m < k})
    IN [p \in 1..SENSOR_COUNT |-> data[CHOOSE k \in 1..Len(data) : rank(k) = p]]

\* sensors that keep the first SENSOR_COUNT readings of the query order
SensorsOfFirst(cs, buckets, i) ==
    LET data == InRange(cs, buckets, i)
    IN IF Len(data) > SENSOR_COUNT THEN SubSeq(data, 1, SENSOR_COUNT) ELSE data

SensorsOf(cs, buckets, i) ==
    LET data == InRange(cs, buckets, i)
    IN IF Len(data) > SENSOR_COUNT THEN TopReadings(cs, data) ELSE data

\* World::update_sensors
UpdateSensors(cs, buckets) ==
    [i \in 1..Len(cs) |-> [cs[i] EXCEPT !.nearest_cells = SensorsOf(cs, buckets, i)]]

\* Cell::normalize_sensors: MAX_MASS (hundredths) and the number of slots
MAX_MASS == 22000
SENSOR_SLOTS == 5

\* the four inputs of one slot, thousandths; a reading is
\* (index, angle, distance, mass, is_alive), the mass in hundredths
NormalizeSlot(reading) ==
    LET mass == reading[4]
    IN << RoundDiv(reading[2] * 1000, PI),
          RoundDiv((SENSOR_RANGE - reading[3]) * 2000, SENSOR_RANGE) - 1000,
          RoundDiv(mass * 2000, MAX_MASS) - 1000,
          reading[5] * 2000 - 1000 >>

RECURSIVE NormalizeFrom(_, _)
NormalizeFrom(nearest_cells, i) ==
    IF i >= SENSOR_SLOTS THEN <<>>
    ELSE (IF i < Len(nearest_cells)
          THEN NormalizeSlot(nearest_cells[i + 1])
          ELSE <<-1000, -1000, -1000, -1000>>)
         \o NormalizeFrom(nearest_cells, i + 1)

\* inputs that leave out the slots without a reading
NormalizeSensorsShort(c) ==
    NormalizeFrom(c.nearest_cells, SENSOR_SLOTS - Len(c.nearest_cells))

\* Cell::normalize_sensors
NormalizeSensors(c) == NormalizeFrom(c.nearest_cells, 0)

-----------------------------------------------------------------------------
(* Inputs: frame times, keys and random draws *)

\* get_frame_time(): a frame of 250 frames per second and a stall of 2 s
FrameTimes == {4, 2000}

\* get_frame_time() of the frame that finds the window empty: the same, or
\* a frame of no measured duration
FirstFrameTimes == FrameTimes \cup {0}

FrameTimesAfter(window) == IF window = <<>> THEN FirstFrameTimes ELSE FrameTimes

\* the keys handle_keyboard_input finds pressed in a frame
KeyInputs == {{}, {"Space"}, {"R"}, {"Equal"}}

\* the rand::gen_range results of one spawn_child or respawn: the heading of
\* the offset, the two velocity factors (hundredths), the facing angle, the
\* angular velocity, the mutation rate (percent), per bias its draw against
\* the rate and its delta, per heritable trait its variance (thousandths:
\* speed, radius, move and turn probability, turn rate, chunk, multiplier,
\* mass), and the position a respawn gives
WestDraw ==
    [heading |-> 314, vfx |-> 50, vfy |-> 99, angle |-> 0, angle_velocity |-> -5,
     rate |-> 9, u |-> <<0, 0, 0, 0>>, delta |-> <<1, -1, 1, -1>>,
     variance |-> <<9, 9, 9, 9, 9, 9, 9, 9>>, px |-> 500, py |-> 6900]

NorthEastDraw ==
    [heading |-> 79, vfx |-> 99, vfy |-> 50, angle |-> 471, angle_velocity |-> 4,
     rate |-> 1, u |-> <<99, 99, 99, 0>>, delta |-> <<0, 0, 0, -1>>,
     variance |-> <<-10, -10, -10, -10, -10, -10, -10, -10>>,
     px |-> 3050, py |-> 3000]

\* the draws of n successive calls: the two draws in turn, from either one
DrawChoices(n) ==
    { [k \in 1..n |-> IF (k + first) % 2 = 0 THEN WestDraw ELSE NorthEastDraw] :
        first \in {0, 1} }

-----------------------------------------------------------------------------
(* Initial states *)

\* heritable traits: radius, speed, turn rate, chunk size, multiplier, mass
TraitsA == <<100, 20, 10, 5000, 150, 20000>>
TraitsB == <<150, 30, 15, 5500, 200, 22000>>
TraitsC == <<60, 10, 5, 4500, 90, 18000>>

NoOpBrain == <<1, 0, 0, 0>>
LeftBrain == <<0, 1, 0, 0>>
RightBrain == <<-3, 0, 2, 1>>
ForwardBrain == <<0, 0, 0, 0>>

\* an agent of the first population (generation 0) that has fed `meals` times
MakeCell(id, state, x, y, energy, age, meals, brain, traits) ==
    [id |-> id, parent |-> 0, x |-> x, y |-> y, velocity_x |-> 0, velocity_y |-> 0,
     energy |-> energy, angle |-> 0, angle_velocity |-> 0, state |-> state,
     age |-> age,
     total_energy_accumulated |->
         SPAWN_ENERGY + meals * RoundDiv(traits[4] * traits[5], 100),
     children_count |-> 0,
     generation |-> 0, nearest_cells |-> <<>>, brain |-> brain,
     radius |-> traits[1], move_probability |-> 10, turn_probability |-> 10,
     speed |-> traits[2], turn_rate |-> traits[3], energy_chunk_size |-> traits[4],
     species_multiplier |-> traits[5], mass |-> traits[6]]

\* Cell::spawn without a persisted brain
SpawnCell(id, x, y, brain, traits) ==
    [MakeCell(id, Alive, x, y, SPAWN_ENERGY, 0, 0, brain, traits)
        EXCEPT !.velocity_x = RoundDiv(traits[2] * 75, 100), !.angle_velocity = 3]

\* World::spawn: the populations of a fresh world
SpawnPopulations ==
    { << SpawnCell(1, 500, 500, ForwardBrain, TraitsA),
         SpawnCell(2, 560, 500, LeftBrain, TraitsB) >>,
      << SpawnCell(1, 500, 500, NoOpBrain, TraitsC),
         SpawnCell(2, 6950, 40, RightBrain, TraitsA),
         SpawnCell(3, 3000, 3000, ForwardBrain, TraitsB) >> }

\* Populations a running world has between two frames.  An Alive agent holds
\* more than the reproduction threshold only where the cap has refused it a
\* child; a Corpse holds at most -CORPSE_DECAY_RATE and at least
\* DEPLETED_CELL_ENERGY, an Alive agent more than -METABOLISM_ENERGY_LOSS.
Feeding ==
    << MakeCell(1, Alive, 500, 500, 9900, 400, 3, NoOpBrain, TraitsA),
       MakeCell(2, Corpse, 650, 500, -5000, 350, 1, NoOpBrain, TraitsA),
       MakeCell(3, Alive, 600, 620, 9900, 250, 1, ForwardBrain, TraitsB),
       MakeCell(4, Alive, 700, 450, 5000, 50, 0, LeftBrain, TraitsC) >>

FirstNotNearest ==
    << MakeCell(1, Alive, 500, 500, 9900, 400, 3, RightBrain, TraitsA),
       MakeCell(2, Corpse, 680, 500, -2, 350, 1, NoOpBrain, TraitsA),
       MakeCell(3, Corpse, 520, 500, -4000, 90, 0, NoOpBrain, TraitsC) >>

AcrossSeam ==
    << MakeCell(1, Corpse, 6950, 6950, -9000, 500, 2, NoOpBrain, TraitsB),
       MakeCell(2, Alive, 50, 50, 6000, 300, 2, NoOpBrain, TraitsA) >>

Dying ==
    << MakeCell(1, Alive, 500, 500, -2, 700, 2, ForwardBrain, TraitsA),
       MakeCell(2, Corpse, 3000, 3000, -10000, 350, 1, NoOpBrain, TraitsA),
       MakeCell(3, Corpse, 3200, 3000, -600, 350, 1, NoOpBrain, TraitsC) >>

Wasting ==
    << MakeCell(1, Corpse, 500, 500, -9999, 350, 1, NoOpBrain, TraitsA),
       MakeCell(2, Alive, 3000, 3000, 2, 1200, 4, LeftBrain, TraitsC),
       MakeCell(3, Corpse, 5000, 500, -5000, 350, 1, NoOpBrain, TraitsB),
       MakeCell(4, Corpse, 500, 5000, -10000, 350, 1, NoOpBrain, TraitsC) >>

WastingTail ==
    << MakeCell(1, Alive, 3000, 3000, 8000, 100, 0, ForwardBrain, TraitsB),
       MakeCell(2, Corpse, 500, 500, -9999, 350, 1, NoOpBrain, TraitsA),
       MakeCell(3, Corpse, 5000, 500, -10000, 350, 1, NoOpBrain, TraitsB),
       MakeCell(4, Corpse, 500, 5000, -9999, 350, 1, NoOpBrain, TraitsC) >>

\* an agent the cap has kept from reproducing while it went on feeding
Overfed ==
    << MakeCell(1, Alive, 500, 500, 22047, 900, 9, NoOpBrain, TraitsC),
       MakeCell(2, Corpse, 600, 500, -3000, 350, 1, NoOpBrain, TraitsA) >>

CorpsePair ==
    << MakeCell(1, Alive, 500, 500, 3000, 400, 3, LeftBrain, TraitsA),
       MakeCell(2, Corpse, 3000, 3000, -2, 400, 4, NoOpBrain, TraitsB),
       MakeCell(3, Corpse, 3100, 3000, -5000, 350, 1, NoOpBrain, TraitsA) >>

\* more agents within sensor range of one agent than a sensor list holds,
\* two of them out of range of each other
Crowd ==
    << MakeCell(1, Alive, 3000, 3000, 7000, 400, 3, NoOpBrain, TraitsA),
       MakeCell(2, Alive, 3500, 3000, 9000, 300, 2, NoOpBrain, TraitsB),
       MakeCell(3, Alive, 3000, 3500, 5000, 300, 1, LeftBrain, TraitsC),
       MakeCell(4, Corpse, 2500, 3000, -3000, 350, 1, NoOpBrain, TraitsA),
       MakeCell(5, Alive, 3000, 2500, 8000, 200, 1, NoOpBrain, TraitsA),
       MakeCell(6, Corpse, 4200, 4200, -6000, 350, 1, NoOpBrain, TraitsB),
       MakeCell(7, Alive, 1800, 1800, 2, 1200, 4, LeftBrain, TraitsC) >>

\* a running world between two frames: the population, the cap, the
\* configured initial count, the FPS window and the time since the last
\* adjustment of the cap
Running ==
    { [cells |-> Feeding, cap |-> 4, initial |-> 3, window |-> <<16, 16>>, elapsed |-> 480],
      [cells |-> FirstNotNearest, cap |-> 3, initial |-> 3, window |-> <<4, 4>>,
       elapsed |-> 1996],
      [cells |-> AcrossSeam, cap |-> 3, initial |-> 2, window |-> <<16, 16>>,
       elapsed |-> 1996],
      [cells |-> Dying, cap |-> 3, initial |-> 3, window |-> <<16, 16>>, elapsed |-> 480],
      [cells |-> Dying, cap |-> 1, initial |-> 3, window |-> <<2000, 16>>, elapsed |-> 16],
      [cells |-> Wasting, cap |-> 5, initial |-> 3, window |-> <<16, 16>>, elapsed |-> 480],
      [cells |-> WastingTail, cap |-> 5, initial |-> 3, window |-> <<16, 16>>,
       elapsed |-> 480],
      [cells |-> Overfed, cap |-> 2, initial |-> 2, window |-> <<4, 4>>, elapsed |-> 1996],
      [cells |-> CorpsePair, cap |-> 4, initial |-> 2, window |-> <<16, 16>>,
       elapsed |-> 480],
      [cells |-> Crowd, cap |-> 7, initial |-> 3, window |-> <<16, 16>>,
       elapsed |-> 480] }

\* a running world the Space key has paused, an adjustment of the cap being
\* due in its next unpaused tick
Paused ==
    { [cells |-> Overfed, cap |-> 2, initial |-> 2, window |-> <<4, 4>>, elapsed |-> 1996] }

Bookkeeping ==
    /\ pc = "idle"
    /\ pending = {}
    /\ collisions = <<>>
    /\ indices_to_remove = <<>>
    /\ saves = <<>>
    /\ ticks = 0
    /\ keys_used = 0
    /\ simulation_speed = 1000
    /\ storage = None
    /\ nn = None
    /\ nn_calls = 0
    /\ nn_rate = 0
    /\ body = None
    /\ body_updates = 0
    /\ nn_out = None
    /\ corpse = None
    /\ corpse_pc = "update"

\* World::spawn
InitSpawn ==
    /\ cells \in SpawnPopulations
    /\ grid = EmptyGrid
    /\ max_cells = Len(cells)
    /\ initial_cell_count = Len(cells)
    /\ frame_times = <<>>
    /\ last_adjustment_time = 0
    /\ current_fps = FALLBACK_FPS
    /\ best_cell_genome = None
    /\ last_best_cell_index = None
    /\ prev = cells
    /\ next_id = Len(cells) + 1
    /\ best_id = 0
    /\ paused = FALSE
    /\ Bookkeeping

InitRunning ==
    \E w \in Running \cup Paused, p \in BOOLEAN :
        /\ p = (w \in Paused)
        /\ paused = p
        /\ grid = RebuildSpatialGrid(w.cells)
        /\ cells = UpdateSensors(w.cells, grid)
        /\ max_cells = w.cap
        /\ initial_cell_count = w.initial
        /\ frame_times = w.window
        /\ last_adjustment_time = w.elapsed
        /\ current_fps = FpsOf(w.window)
        /\ last_best_cell_index = BestCellIndex(w.cells)
        /\ best_cell_genome = Some(cells[Unwrap(last_best_cell_index)])
        /\ prev = cells
        /\ next_id = Len(cells) + 1
        /\ best_id = cells[Unwrap(last_best_cell_index)].id
        /\ Bookkeeping

Init == InitSpawn \/ InitRunning

-----------------------------------------------------------------------------
(* World::update, step by step.  pc names the stage that runs next. *)

\* a frame that adjusts the cap before it tests the pause flag
BeginFrameAdjusting(delta_time, keys, draws) ==
    LET now_paused == IF "Space" \in keys THEN ~paused ELSE paused
        reset == "R" \in keys /\ IsSome(best_cell_genome)
        spawn_count == SpawnCount(max_cells, initial_cell_count)
        window == PushFrame(frame_times, delta_time)
        fps == FpsOf(window)
        elapsed == last_adjustment_time + delta_time
    IN /\ pc = "idle"
       /\ ticks < MaxTicks
       /\ keys # {} => keys_used < MaxKeyFrames
       /\ draws \in DrawChoices(IF reset THEN spawn_count ELSE 0)
       /\ ticks' = ticks + 1
       /\ keys_used' = IF keys # {} THEN keys_used + 1 ELSE keys_used
       /\ paused' = now_paused
       /\ simulation_speed' = SpeedAfter(simulation_speed, keys)
       /\ cells' = IF reset
                   THEN RespawnFromBest(Unwrap(best_cell_genome), spawn_count, draws,
                                        next_id)
                   ELSE cells
       /\ next_id' = IF reset THEN next_id + spawn_count ELSE next_id
       /\ frame_times' = window
       /\ current_fps' = fps
       /\ IF now_paused
          THEN /\ pc' = "idle"
               /\ pending' = {}
          ELSE /\ pc' = "update"
               /\ pending' = 1..Len(cells')
       /\ last_adjustment_time' = IF elapsed < ADJUSTMENT_INTERVAL THEN elapsed ELSE 0
       /\ max_cells' = IF elapsed < ADJUSTMENT_INTERVAL
                       THEN max_cells
                       ELSE AdjustedCap(max_cells, fps)
       /\ prev' = cells'
       /\ UNCHANGED <<grid, best_cell_genome, last_best_cell_index, initial_cell_count,
                      storage, collisions, indices_to_remove, saves, best_id, own_vars>>

\* handle_keyboard_input, update_fps, the pause test and adjust_cell_cap
BeginFrame(delta_time, keys, draws) ==
    LET now_paused == IF "Space" \in keys THEN ~paused ELSE paused
        reset == "R" \in keys /\ IsSome(best_cell_genome)
        spawn_count == SpawnCount(max_cells, initial_cell_count)
        window == PushFrame(frame_times, delta_time)
        fps == FpsOf(window)
        elapsed == last_adjustment_time + delta_time
    IN /\ pc = "idle"
       /\ ticks < MaxTicks
       /\ keys # {} => keys_used < MaxKeyFrames
       /\ draws \in DrawChoices(IF reset THEN spawn_count ELSE 0)
       /\ ticks' = ticks + 1
       /\ keys_used' = IF keys # {} THEN keys_used + 1 ELSE keys_used
       /\ paused' = now_paused
       /\ simulation_speed' = SpeedAfter(simulation_speed, keys)
       /\ cells' = IF reset
                   THEN RespawnFromBest(Unwrap(best_cell_genome), spawn_count, draws,
                                        next_id)
                   ELSE cells
       /\ next_id' = IF reset THEN next_id + spawn_count ELSE next_id
       /\ frame_times' = window
       /\ current_fps' = fps
       /\ IF now_paused
          THEN /\ pc' = "idle"
               /\ pending' = {}
               /\ UNCHANGED <<max_cells, last_adjustment_time, best_id, own_vars>>
          ELSE /\ pc' = "update"
               /\ pending' = 1..Len(cells')
               /\ last_adjustment_time' =
                      IF elapsed < ADJUSTMENT_INTERVAL THEN elapsed ELSE 0
               /\ max_cells' = IF elapsed < ADJUSTMENT_INTERVAL
                               THEN max_cells
                               ELSE AdjustedCap(max_cells, fps)
       /\ prev' = cells'
       /\ UNCHANGED <<grid, best_cell_genome, last_best_cell_index, initial_cell_count,
                      storage, collisions, indices_to_remove, saves, best_id, own_vars>>

\* a stage in which the update of an agent also slows the agent after it
UpdateCellAndNext(i) ==
    /\ pc = "update"
    /\ i \in pending
    /\ cells' = [cells EXCEPT ![i] = CellUpdate(@, WorldWidth, WorldHeight),
                              ![(i % Len(cells)) + 1].velocity_x = 0]
    /\ pending' = pending \ {i}
    /\ UNCHANGED <<grid, max_cells, frame_times, last_adjustment_time, current_fps,
                   best_cell_genome, last_best_cell_index, paused, simulation_speed,
                   initial_cell_count, storage, pc, collisions, indices_to_remove,
                   saves, next_id, ticks, keys_used, prev, best_id, own_vars>>

\* the parallel stage: Cell::update of one agent, in any order
UpdateCell(i) ==
    /\ pc = "update"
    /\ i \in pending
    /\ cells' = [cells EXCEPT ![i] = CellUpdate(@, WorldWidth, WorldHeight)]
    /\ pending' = pending \ {i}
    /\ UNCHANGED <<grid, max_cells, frame_times, last_adjustment_time, current_fps,
                   best_cell_genome, last_best_cell_index, paused, simulation_speed,
                   initial_cell_count, storage, pc, collisions, indices_to_remove,
                   saves, next_id, ticks, keys_used, prev, best_id, own_vars>>

\* a grid rebuild that does not wait for the parallel stage to join
RebuildForCollisionsEarly ==
    /\ pc = "update"
    /\ grid' = RebuildSpatialGrid(cells)
    /\ pc' = "detect"
    /\ prev' = cells
    /\ UNCHANGED <<cells, max_cells, frame_times, last_adjustment_time, current_fps,
                   best_cell_genome, last_best_cell_index, paused, simulation_speed,
                   initial_cell_count, storage, pending, collisions, indices_to_remove,
                   saves, next_id, ticks, keys_used, best_id, own_vars>>

\* rebuild_spatial_grid, once every agent is updated
RebuildForCollisions ==
    /\ pc = "update"
    /\ pending = {}
    /\ grid' = RebuildSpatialGrid(cells)
    /\ pc' = "detect"
    /\ prev' = cells
    /\ UNCHANGED <<cells, max_cells, frame_times, last_adjustment_time, current_fps,
                   best_cell_genome, last_best_cell_index, paused, simulation_speed,
                   initial_cell_count, storage, pending, collisions, indices_to_remove,
                   saves, next_id, ticks, keys_used, best_id, own_vars>>

\* check_collisions: the parallel detection
Detect ==
    /\ pc = "detect"
    /\ collisions' = DetectCollisions(cells, grid)
    /\ pc' = "apply"
    /\ prev' = cells
    /\ UNCHANGED <<cells, grid, max_cells, frame_times, last_adjustment_time,
                   current_fps, best_cell_genome, last_best_cell_index, paused,
                   simulation_speed, initial_cell_count, storage, pending,
                   indices_to_remove, saves, next_id, ticks, keys_used, best_id, own_vars>>

\* check_collisions: the transfers
Apply ==
    /\ pc = "apply"
    /\ cells' = ApplyTransfers(cells, collisions)
    /\ pc' = "prune"
    /\ prev' = cells
    /\ UNCHANGED <<grid, max_cells, frame_times, last_adjustment_time, current_fps,
                   best_cell_genome, last_best_cell_index, paused, simulation_speed,
                   initial_cell_count, storage, pending, collisions, indices_to_remove,
                   saves, next_id, ticks, keys_used, best_id, own_vars>>

\* check_collisions: the removal of the depleted agents
PruneDepleted ==
    /\ pc = "prune"
    /\ indices_to_remove' = IndicesToRemove(cells)
    /\ cells' = Prune(cells)
    /\ pc' = "reproduce"
    /\ prev' = cells
    /\ UNCHANGED <<grid, max_cells, frame_times, last_adjustment_time, current_fps,
                   best_cell_genome, last_best_cell_index, paused, simulation_speed,
                   initial_cell_count, storage, pending, collisions, saves, next_id,
                   ticks, keys_used, best_id, own_vars>>

\* handle_reproduction
Reproduce(draws) ==
    /\ pc = "reproduce"
    /\ draws \in DrawChoices(BirthCount(cells))
    /\ LET r == HandleReproduction(cells, max_cells, last_best_cell_index, draws, next_id)
       IN /\ cells' = r.cells
          /\ saves' = r.saves
          /\ storage' = IF r.saves = <<>> THEN storage
                        ELSE Some(r.saves[Len(r.saves)])
    /\ next_id' = next_id + BirthCount(cells)
    /\ pc' = "grid"
    /\ prev' = cells
    /\ UNCHANGED <<grid, max_cells, frame_times, last_adjustment_time, current_fps,
                   best_cell_genome, last_best_cell_index, paused, simulation_speed,
                   initial_cell_count, pending, collisions, indices_to_remove, ticks,
                   keys_used, best_id, own_vars>>

\* rebuild_spatial_grid, after the population changed
RebuildForSensors ==
    /\ pc = "grid"
    /\ grid' = RebuildSpatialGrid(cells)
    /\ pc' = "sensors"
    /\ prev' = cells
    /\ UNCHANGED <<cells, max_cells, frame_times, last_adjustment_time, current_fps,
                   best_cell_genome, last_best_cell_index, paused, simulation_speed,
                   initial_cell_count, storage, pending, collisions, indices_to_remove,
                   saves, next_id, ticks, keys_used, best_id, own_vars>>

\* update_sensors
Sense ==
    /\ pc = "sensors"
    /\ cells' = UpdateSensors(cells, grid)
    /\ pc' = "stats"
    /\ prev' = cells
    /\ UNCHANGED <<grid, max_cells, frame_times, last_adjustment_time, current_fps,
                   best_cell_genome, last_best_cell_index, paused, simulation_speed,
                   initial_cell_count, storage, pending, collisions, indices_to_remove,
                   saves, next_id, ticks, keys_used, best_id, own_vars>>

\* update_stats
UpdateStats ==
    /\ pc = "stats"
    /\ best_cell_genome' = NextGenome(cells, best_cell_genome, last_best_cell_index)
    /\ last_best_cell_index' = BestCellIndex(cells)
    /\ UNCHANGED own_vars
    /\ best_id' = IF IsSome(BestCellIndex(cells))
                  THEN cells[Unwrap(BestCellIndex(cells))].id ELSE 0
    /\ pc' = "extinction"
    /\ prev' = cells
    /\ UNCHANGED <<cells, grid, max_cells, frame_times, last_adjustment_time,
                   current_fps, paused, simulation_speed, initial_cell_count, storage,
                   pending, collisions, indices_to_remove, saves, next_id, ticks,
                   keys_used>>

\* an extinction check that also fires when a single agent is Alive
ExtinctionCheckAtOne(draws) ==
    LET extinct == AliveCount(cells) <= 1 /\ IsSome(best_cell_genome)
        spawn_count == SpawnCount(max_cells, initial_cell_count)
    IN /\ pc = "extinction"
       /\ draws \in DrawChoices(IF extinct THEN spawn_count ELSE 0)
       /\ cells' = IF extinct
                   THEN RespawnFromBest(Unwrap(best_cell_genome), spawn_count, draws,
                                        next_id)
                   ELSE cells
       /\ next_id' = IF extinct THEN next_id + spawn_count ELSE next_id
       /\ pc' = "idle"
       /\ prev' = cells
       /\ UNCHANGED <<grid, max_cells, frame_times, last_adjustment_time, current_fps,
                      best_cell_genome, last_best_cell_index, paused, simulation_speed,
                      initial_cell_count, storage, pending, collisions,
                      indices_to_remove, saves, ticks, keys_used, best_id, own_vars>>

\* the extinction check that ends World::update
ExtinctionCheck(draws) ==
    LET extinct == AliveCount(cells) = 0 /\ IsSome(best_cell_genome)
        spawn_count == SpawnCount(max_cells, initial_cell_count)
    IN /\ pc = "extinction"
       /\ draws \in DrawChoices(IF extinct THEN spawn_count ELSE 0)
       /\ cells' = IF extinct
                   THEN RespawnFromBest(Unwrap(best_cell_genome), spawn_count, draws,
                                        next_id)
                   ELSE cells
       /\ next_id' = IF extinct THEN next_id + spawn_count ELSE next_id
       /\ pc' = "idle"
       /\ prev' = cells
       /\ UNCHANGED <<grid, max_cells, frame_times, last_adjustment_time, current_fps,
                      best_cell_genome, last_best_cell_index, paused, simulation_speed,
                      initial_cell_count, storage, pending, collisions,
                      indices_to_remove, saves, ticks, keys_used, best_id, own_vars>>

Next ==
    \/ \E delta_time \in FrameTimesAfter(frame_times), keys \in KeyInputs :
           \E draws \in DrawChoices(SpawnCount(max_cells, initial_cell_count))
                        \cup DrawChoices(0) :
               BeginFrame(delta_time, keys, draws)
    \/ \E i \in pending : UpdateCell(i)
    \/ RebuildForCollisions
    \/ Detect
    \/ Apply
    \/ PruneDepleted
    \/ \E draws \in DrawChoices(BirthCount(cells)) : Reproduce(draws)
    \/ RebuildForSensors
    \/ Sense
    \/ UpdateStats
    \/ \E draws \in DrawChoices(SpawnCount(max_cells, initial_cell_count))
                    \cup DrawChoices(0) :
           ExtinctionCheck(draws)

Spec == Init /\ [][Next]_vars

\* the stage that may follow each stage of World::update
StageAfter ==
    [idle |-> {"idle", "update"}, update |-> {"update", "detect"},
     detect |-> {"apply"}, apply |-> {"prune"}, prune |-> {"reproduce"},
     reproduce |-> {"grid"}, grid |-> {"sensors"}, sensors |-> {"stats"},
     stats |-> {"extinction"}, extinction |-> {"idle"}]

\* the position of a call of World::update moves on: one more agent of the
\* parallel stage is updated, or the next stage is entered.  These are the
\* steps of Next taken inside a call, told by what they do to pc and pending
StageRuns ==
    /\ pc # "idle"
    /\ IF pc = "update" /\ pending # {}
       THEN pc' = pc /\ \E i \in pending : pending' = pending \ {i}
       ELSE pc' \in StageAfter[pc] \ {pc} /\ pending' = pending

\* a call of World::update is not abandoned half-way: it runs its stages and
\* returns; frames may stop coming
FairSpec == Spec /\ WF_<<pc, pending>>(StageRuns)

-----------------------------------------------------------------------------
(* A network taken on its own: created by new, then mutated again and again *)

\* the gen_range(-1.0, 1.0) results of a new, for even and odd positions
NewDraws == {<<-100, -100>>, <<0, 0>>, <<99, -100>>, <<99, 99>>}

\* the rates mutate is called with
MutationRates == {-50, 0, 50, 150}

\* the gen_range results of a mutate, for even and odd positions: the draw
\* against the rate and the delta
MutationDraws ==
    { [u |-> <<0, 0>>, delta |-> <<9, 9>>],
      [u |-> <<0, 60>>, delta |-> <<9, -10>>] }

world_vars == <<cells, grid, max_cells, frame_times, last_adjustment_time, current_fps,
                best_cell_genome, last_best_cell_index, paused, simulation_speed,
                initial_cell_count, storage, pc, pending, collisions,
                indices_to_remove, prev, saves, next_id, best_id, ticks, keys_used>>

\* no World is running
NoWorld ==
    /\ cells = <<>>
    /\ grid = EmptyGrid
    /\ max_cells = 0
    /\ frame_times = <<>>
    /\ last_adjustment_time = 0
    /\ current_fps = FALLBACK_FPS
    /\ best_cell_genome = None
    /\ last_best_cell_index = None
    /\ paused = FALSE
    /\ simulation_speed = 1000
    /\ initial_cell_count = 0
    /\ storage = None
    /\ pc = "idle"
    /\ pending = {}
    /\ collisions = <<>>
    /\ indices_to_remove = <<>>
    /\ prev = <<>>
    /\ saves = <<>>
    /\ next_id = 1
    /\ best_id = 0
    /\ ticks = 0
    /\ keys_used = 0

NetInit ==
    /\ nn \in {Some(NewNetwork(NetInputs, NetOutputs, r)) : r \in NewDraws}
    /\ nn_calls = 0
    /\ nn_rate = 0
    /\ body = None
    /\ body_updates = 0
    /\ nn_out = None
    /\ corpse = None
    /\ corpse_pc = "update"
    /\ NoWorld

NetMutate(rate, d) ==
    /\ nn_calls < MaxMutations
    /\ nn' = Some(MutateNetwork(Unwrap(nn), rate, d))
    /\ nn_calls' = nn_calls + 1
    /\ nn_rate' = rate
    /\ UNCHANGED <<world_vars, body, body_updates, nn_out, corpse, corpse_pc>>

NetNext == \E rate \in MutationRates, d \in MutationDraws : NetMutate(rate, d)

NetSpec == NetInit /\ [][NetNext]_vars

-----------------------------------------------------------------------------
(* The forward calls on a NeuralNetwork taken on its own: a brain as        *)
(* Cell::new creates it or a smaller network, cloned and mutated, and       *)
(* called with the inputs decide_action passes or with other slices.        *)

\* Cell::new: NeuralNetwork::new(20, 4)
BRAIN_INPUTS == 20
BRAIN_OUTPUTS == 4

\* what normalize_sensors returns for the agents of a sensed population
SensorInputs ==
    LET cs == UpdateSensors(Feeding, RebuildSpatialGrid(Feeding))
    IN {NormalizeSensors(cs[k]) : k \in 1..Len(cs)}

\* the slices forward is called with: those, and slices of 0, 1, 2 and 21
\* values
ForwardInputs ==
    SensorInputs \cup {<<>>, <<500>>, <<500, -1000>>,
                       [k \in 1..(BRAIN_INPUTS + 1) |-> 0]}

NetworkSizes == {<<NetInputs, NetOutputs>>, <<BRAIN_INPUTS, BRAIN_OUTPUTS>>}

ForwardInit ==
    /\ nn \in {Some(NewNetwork(sz[1], sz[2], r)) : sz \in NetworkSizes, r \in NewDraws}
    /\ nn_calls = 0
    /\ nn_rate = 0
    /\ body = None
    /\ body_updates = 0
    /\ nn_out = None
    /\ corpse = None
    /\ corpse_pc = "update"
    /\ NoWorld

\* spawn_child: brain.clone() and mutate
CloneAndMutate(rate, d) ==
    /\ nn_calls < MaxClones
    /\ NetMutate(rate, d)

\* a forward call on the network
NetForward(inputs) ==
    /\ nn_out' = Some([inputs |-> inputs, result |-> ForwardNetwork(Unwrap(nn), inputs)])
    /\ UNCHANGED <<world_vars, nn, nn_calls, nn_rate, body, body_updates, corpse, corpse_pc>>

ForwardNext ==
    \/ \E rate \in MutationRates, d \in MutationDraws : CloneAndMutate(rate, d)
    \/ \E inputs \in ForwardInputs : NetForward(inputs)

ForwardSpec == ForwardInit /\ [][ForwardNext]_vars

-----------------------------------------------------------------------------
(* One agent followed on its own from its death on, through the unpaused    *)
(* ticks of a World: Cell::update, the transfers check_collisions applies   *)
(* to it, the pruning, and a respawn between two ticks.  The Alive agents   *)
(* that feed on it are not followed; each tick draws how many of them do.   *)

\* the agent when it is first followed: Alive with its energy used up, or a
\* Corpse at some point of its decay
DyingAgents ==
    { MakeCell(1, Alive, 500, 500, 0, 700, 2, NoOpBrain, TraitsA),
      MakeCell(1, Alive, 500, 500, -2, 150, 0, ForwardBrain, TraitsC),
      MakeCell(1, Corpse, 500, 500, -9001, 350, 1, NoOpBrain, TraitsB) }

\* an Alive agent that overlaps it
Feeder == MakeCell(2, Alive, 550, 500, 5000, 400, 3, NoOpBrain, TraitsA)

\* the transfers a detection records against the agent, the feeders at
\* index 1 and the agent at index 2: none, one or two
FeedingChoices ==
    LET t == <<1, 2, Feeder.energy_chunk_size, Feeder.species_multiplier>>
    IN {<<>>, <<t>>, <<t, t>>}

DecayInit ==
    /\ corpse \in {Some(c) : c \in DyingAgents}
    /\ corpse_pc = "update"
    /\ nn = None
    /\ nn_calls = 0
    /\ nn_rate = 0
    /\ nn_out = None
    /\ body = None
    /\ body_updates = 0
    /\ NoWorld

\* World::update, the update stage, as it reaches the agent
CorpseUpdate ==
    /\ IsSome(corpse)
    /\ corpse_pc = "update"
    /\ corpse' = Some(CellUpdate(Unwrap(corpse), WorldWidth, WorldHeight))
    /\ corpse_pc' = "apply"
    /\ UNCHANGED <<world_vars, nn, nn_calls, nn_rate, nn_out, body, body_updates>>

\* check_collisions, the transfers, as they reach the agent
CorpseTransfers(ts) ==
    /\ IsSome(corpse)
    /\ corpse_pc = "apply"
    /\ corpse' = Some(ApplyTransfers(<<Feeder, Unwrap(corpse)>>,
                                     IF Unwrap(corpse).state = Corpse THEN ts ELSE <<>>)[2])
    /\ corpse_pc' = "prune"
    /\ UNCHANGED <<world_vars, nn, nn_calls, nn_rate, nn_out, body, body_updates>>

\* check_collisions, the pruning, as it reaches the agent
CorpsePrune ==
    /\ IsSome(corpse)
    /\ corpse_pc = "prune"
    /\ corpse' = IF Prune(corpse) = <<>> THEN None ELSE corpse
    /\ corpse_pc' = "update"
    /\ UNCHANGED <<world_vars, nn, nn_calls, nn_rate, nn_out, body, body_updates>>

\* respawn_from_best between two ticks: cells.clear()
CorpseCleared ==
    /\ IsSome(corpse)
    /\ corpse_pc = "update"
    /\ corpse' = None
    /\ UNCHANGED <<world_vars, nn, nn_calls, nn_rate, nn_out, body, body_updates,
                   corpse_pc>>

\* a step of an unpaused tick
DecayTick ==
    \/ CorpseUpdate
    \/ \E ts \in FeedingChoices : CorpseTransfers(ts)
    \/ CorpsePrune

DecayNext == DecayTick \/ CorpseCleared

\* the simulation keeps running unpaused ticks
DecaySpec == DecayInit /\ [][DecayNext]_vars /\ WF_vars(DecayTick)

-----------------------------------------------------------------------------
(* The position of a Cell taken on its own, in f32.  Lengths are in units   *)
(* of 2^-13, 8192 to 1.0: below 2^24 units (2048.0) every whole number of   *)
(* units is taken as an f32, from there on the f32 values are 2 units       *)
(* apart, from 2^25 units 4 units, from 2^26 units 8 units.                 *)

\* units per 1.0
F32_ONE == 8192
\* config.rs: world_width 8000.0 and world_height 7000.0, in units
F32_WORLD_WIDTH == 65536000
F32_WORLD_HEIGHT == 57344000

\* the distance between the f32 values around n
F32Ulp(n) ==
    IF Abs(n) < 16777216 THEN 1
    ELSE IF Abs(n) < 33554432 THEN 2
    ELSE IF Abs(n) < 67108864 THEN 4
    ELSE 8

\* the f32 nearest to n, the even one of two equally near
F32Round(n) ==
    LET u == F32Ulp(n)
        q == Abs(n) \div u
        r == Abs(n) % u
        up == 2 * r > u \/ (2 * r = u /\ q % 2 = 1)
        magnitude == IF up THEN (q + 1) * u ELSE q * u
    IN IF n < 0 THEN -magnitude ELSE magnitude

\* the % of f32: exact, with the sign of the dividend
F32Rem(a, m) == IF a >= 0 THEN a % m ELSE -((-a) % m)

\* f32::rem_euclid: r = self % rhs; if r < 0.0 { r + rhs.abs() } else { r }
F32RemEuclid(a, m) ==
    LET r == F32Rem(a, m)
    IN IF r < 0 THEN F32Round(r + m) ELSE r

\* the position part of Cell::update; dx and dy are velocity * slowdown
MoveBody(b, dx, dy) ==
    [x |-> F32RemEuclid(F32Round(b.x + dx), F32_WORLD_WIDTH),
     y |-> F32RemEuclid(F32Round(b.y + dy), F32_WORLD_HEIGHT)]

\* positions before the first update: the corner, 1.0, the last f32 before
\* the far edge, and 15.0 beyond the near edge (a child just spawned)
BodyStarts ==
    {[x |-> x, y |-> y] :
        x \in {0, F32_ONE, F32_WORLD_WIDTH - 4, -15 * F32_ONE},
        y \in {0, F32_ONE, F32_WORLD_HEIGHT - 4, -15 * F32_ONE}}

\* velocity * slowdown of one update: a step of 1.0 and one unit back, one
\* unit back, rest, and the top speed 3.0
Displacements == {-(F32_ONE + 1), -1, 0, 3 * F32_ONE}

WrapInit ==
    /\ body \in {Some(b) : b \in BodyStarts}
    /\ body_updates = 0
    /\ nn_out = None
    /\ corpse = None
    /\ corpse_pc = "update"
    /\ nn = None
    /\ nn_calls = 0
    /\ nn_rate = 0
    /\ NoWorld

UpdateBody(dx, dy) ==
    /\ body_updates < MaxBodyUpdates
    /\ body' = Some(MoveBody(Unwrap(body), dx, dy))
    /\ body_updates' = body_updates + 1
    /\ UNCHANGED <<world_vars, nn, nn_calls, nn_rate, nn_out, corpse, corpse_pc>>

WrapNext == \E dx \in Displacements, dy \in Displacements : UpdateBody(dx, dy)

WrapSpec == WrapInit /\ [][WrapNext]_vars

-----------------------------------------------------------------------------
(* Vocabulary of the properties *)

\* the agents the parallel stage has updated: Cell::update was the last
\* operation on each of them
Updated == IF pc = "update" THEN (1..Len(cells)) \ pending ELSE {}

\* World::update has just run all its stages
EndOfTick == pc = "idle" /\ ticks > 0 /\ ~paused

\* the step that led here (the pruning, the reproduction, ...) found the
\* agent array as prev records it
AfterApply == pc = "prune"
AfterPrune == pc = "reproduce"
AfterReproduction == pc = "grid"
AfterDetection == pc = "apply"

Ids(cs) == {cs[k].id : k \in 1..Len(cs)}

\* the positions of prev that gave birth in the reproduction just run
Reproduced == {k \in 1..Len(prev) : cells[k].children_count # prev[k].children_count}

\* the children of the reproduction just run
Newborn == (Len(prev) + 1)..Len(cells)

ChildrenOf(k) == {n \in Newborn : cells[n].parent = prev[k].id}

\* the agents with enough energy for a child when the reproduction began
Eligible == {k \in 1..Len(prev) : prev[k].energy > 10000}

\* the chunk sizes of the agents that recorded a transfer against position j
RECURSIVE TakenFrom(_, _)
TakenFrom(ts, j) ==
    IF ts = <<>> THEN 0
    ELSE (IF Head(ts)[2] = j THEN prev[Head(ts)[1]].energy_chunk_size ELSE 0)
         + TakenFrom(Tail(ts), j)

\* candidate j qualifies for a transfer to agent i: an overlapping Corpse
IsOverlappingCorpse(i, j) ==
    /\ j # i
    /\ cells[j].state = Corpse
    /\ LET sum == GetCurrentRadius(cells[i]) + GetCurrentRadius(cells[j])
       IN DistanceSquared(cells[i], cells[j]) < sum * sum

\* the candidates of agent i in the order of the grid query
QueryOrder(i) ==
    QueryNearby(grid, cells[i].x, cells[i].y, 3 * GetCurrentRadius(cells[i]))

-----------------------------------------------------------------------------
(* C1 *)

\* C1 as stated: after Cell::update every agent has 0 <= energy <= mass
C1_EnergyWithinZeroAndMass ==
    \A i \in Updated : 0 <= cells[i].energy /\ cells[i].energy <= cells[i].mass

\* C1, amended: after Cell::update every agent has energy <= mass; an Alive
\* agent has energy >= -METABOLISM_ENERGY_LOSS and a Corpse has energy < 0
C1_EnergyAtMostMass ==
    \A i \in Updated :
        /\ cells[i].energy <= cells[i].mass
        /\ cells[i].state = Alive => cells[i].energy >= -METABOLISM_ENERGY_LOSS
        /\ cells[i].state = Corpse => cells[i].energy < 0

\* an update has just cut an agent's energy back to its mass
C1_Witness ==
    \E i \in Updated :
        /\ prev[i].energy > prev[i].mass
        /\ cells[i] # prev[i]
        /\ cells[i].energy <= cells[i].mass

-----------------------------------------------------------------------------
(* C2 *)

\* C2 as stated: at the end of every tick the population is at most max_cells
C2_PopulationWithinCap == EndOfTick => Len(cells) <= max_cells

-----------------------------------------------------------------------------
(* C3 *)

\* C3: when the extinction check finds no Alive agent and a recorded genome,
\* the tick ends with min(max_cells, initial_cell_count) agents, all Alive,
\* of energy 100, age 0 and the generation after the genome's, none of them
\* an agent of the population before
C3_ExtinctionRepopulates ==
    (EndOfTick /\ AliveCount(prev) = 0 /\ IsSome(best_cell_genome)) =>
        /\ Len(cells) = (IF max_cells < initial_cell_count
                         THEN max_cells ELSE initial_cell_count)
        /\ \A i \in 1..Len(cells) :
               /\ cells[i].state = Alive
               /\ cells[i].energy = 10000
               /\ cells[i].age = 0
               /\ cells[i].generation = Unwrap(best_cell_genome).generation + 1
        /\ Ids(cells) \cap Ids(prev) = {}

\* a tick has ended in an extinction that left corpses behind
C3_Witness ==
    /\ EndOfTick
    /\ AliveCount(prev) = 0
    /\ IsSome(best_cell_genome)
    /\ Len(prev) > 0
    /\ Len(cells) > 0

-----------------------------------------------------------------------------
(* C4 *)

\* C4: after the pruning no agent has energy < -100, and the agents left are
\* exactly those that had energy >= -100 before it, each of them once
C4_PruningKeepsExactlyTheRest ==
    AfterPrune =>
        LET kept == {k \in 1..Len(prev) : prev[k].energy >= -10000}
        IN /\ \A i \in 1..Len(cells) : cells[i].energy >= -10000
           /\ Len(cells) = Cardinality(kept)
           /\ \A k \in kept : Cardinality({i \in 1..Len(cells) : cells[i] = prev[k]}) = 1

\* a pruning has removed the last index and another one
C4_Witness ==
    /\ AfterPrune
    /\ Len(indices_to_remove) >= 2
    /\ indices_to_remove[Len(indices_to_remove)] = Len(prev)
    /\ Len(cells) > 0

-----------------------------------------------------------------------------
(* C5 *)

\* C5: an agent with energy above the threshold spawns a child exactly when
\* the population at the start of the stage plus the children spawned before
\* it is below max_cells, the agents being served by ascending index; the
\* population ends at most at max(population before, max_cells) and a
\* refused agent is unchanged
C5_CapGatesReproduction ==
    AfterReproduction =>
        /\ Reproduced \subseteq Eligible
        /\ \A k \in Eligible :
               k \in Reproduced <=>
                   Len(prev) + Cardinality({m \in Reproduced : m < k}) < max_cells
        /\ Len(cells) = Len(prev) + Cardinality(Reproduced)
        /\ Len(cells) <= (IF Len(prev) > max_cells THEN Len(prev) ELSE max_cells)
        /\ \A k \in Eligible \ Reproduced : cells[k] = prev[k]

\* the cap has let one agent reproduce and refused a later one
C5_Witness ==
    /\ AfterReproduction
    /\ \E k \in Reproduced : \E r \in Eligible \ Reproduced : k < r

-----------------------------------------------------------------------------
(* C6 *)

\* C6: a reproducing agent of energy E > 100 has exactly one child; the
\* child holds 2E/3, the parent keeps E/3, the two together E; the parent's
\* children_count rises by one; no child of this tick has a child
C6_EnergySplit ==
    AfterReproduction =>
        /\ \A k \in Reproduced :
               /\ prev[k].energy > 10000
               /\ cells[k].children_count = prev[k].children_count + 1
               /\ Cardinality(ChildrenOf(k)) = 1
               /\ \A n \in ChildrenOf(k) :
                      /\ Abs(3 * cells[n].energy - 2 * prev[k].energy) <= 1
                      /\ Abs(3 * cells[k].energy - prev[k].energy) <= 1
                      /\ cells[n].energy + cells[k].energy = prev[k].energy
        /\ \A k \in (1..Len(prev)) \ Reproduced : ChildrenOf(k) = {}
        /\ \A n \in Newborn :
               /\ cells[n].children_count = 0
               /\ cells[n].parent \in Ids(prev)
               /\ \A m \in Newborn : cells[m].parent # cells[n].id

\* a child was born with more than the threshold and has no child itself
C6_Witness ==
    /\ AfterReproduction
    /\ \E n \in Newborn : cells[n].energy > 10000 /\ Len(cells) < max_cells

-----------------------------------------------------------------------------
(* C7 *)

\* C7: every agent that spawns a child is Alive
C7_OnlyAliveReproduce ==
    AfterReproduction =>
        /\ \A k \in Reproduced : prev[k].state = Alive
        /\ \A n \in Newborn :
               \E k \in 1..Len(prev) : prev[k].id = cells[n].parent /\ prev[k].state = Alive

\* a reproduction ran with a Corpse in the population
C7_Witness ==
    /\ AfterReproduction
    /\ Reproduced # {}
    /\ \E k \in 1..Len(prev) : prev[k].state = Corpse

-----------------------------------------------------------------------------
(* C8 *)

\* C8: a transfer takes the eater's chunk size off the Corpse, adds chunk
\* size * multiplier to the eater's total_energy_accumulated, and adds the
\* same to its energy if its age is >= 20 and nothing if it is younger
C8_TransferAmounts ==
    AfterApply =>
        \A m \in 1..Len(collisions) :
            LET a == collisions[m][1]
                c == collisions[m][2]
                gain == cells[a].total_energy_accumulated - prev[a].total_energy_accumulated
            IN /\ Abs(100 * gain - prev[a].energy_chunk_size * prev[a].species_multiplier)
                      <= 50
               /\ prev[a].age >= 200 => cells[a].energy = prev[a].energy + gain
               /\ prev[a].age < 200 => cells[a].energy = prev[a].energy
               /\ cells[c].energy = prev[c].energy - TakenFrom(collisions, c)

\* transfers to a juvenile and to an adult have been applied
C8_Witness ==
    /\ AfterApply
    /\ \E m \in 1..Len(collisions) : prev[collisions[m][1]].age < 200
    /\ \E m \in 1..Len(collisions) : prev[collisions[m][1]].age >= 200

-----------------------------------------------------------------------------
(* C9 *)

\* C9: the detection records one transfer for every Alive agent that an
\* overlapping Corpse is a candidate of, and no other; the transfer is with
\* the first such Corpse in the order of the grid query; and the application
\* carries out every recorded transfer
C9_OneTransferPerAliveAgent ==
    /\ AfterDetection =>
           /\ \A m \in 1..Len(collisions) :
                  LET i == collisions[m][1]
                      j == collisions[m][2]
                      q == QueryOrder(i)
                  IN /\ cells[i].state = Alive
                     /\ IsOverlappingCorpse(i, j)
                     /\ \E p \in 1..Len(q) :
                            /\ q[p] = j
                            /\ \A e \in 1..(p - 1) : ~IsOverlappingCorpse(i, q[e])
                     /\ \A n \in 1..Len(collisions) : n # m => collisions[n][1] # i
           /\ \A i \in 1..Len(cells) :
                  (/\ cells[i].state = Alive
                   /\ \E p \in 1..Len(QueryOrder(i)) :
                          IsOverlappingCorpse(i, QueryOrder(i)[p]))
                  => \E m \in 1..Len(collisions) : collisions[m][1] = i
    /\ AfterApply =>
           \A m \in 1..Len(collisions) :
               /\ cells[collisions[m][1]].total_energy_accumulated
                      > prev[collisions[m][1]].total_energy_accumulated
               /\ cells[collisions[m][2]].energy
                      = prev[collisions[m][2]].energy
                        - TakenFrom(collisions, collisions[m][2])

\* a transfer was recorded with a Corpse that is not the nearest one
C9_Witness ==
    /\ AfterDetection
    /\ \E m \in 1..Len(collisions) :
           \E j \in 1..Len(cells) :
               /\ IsOverlappingCorpse(collisions[m][1], j)
               /\ DistanceSquared(cells[collisions[m][1]], cells[j])
                      < DistanceSquared(cells[collisions[m][1]], cells[collisions[m][2]])

-----------------------------------------------------------------------------
(* C10 *)

\* C10: an agent turns from Alive to Corpse exactly in a Cell::update that
\* finds it Alive with energy <= 0; an update that leaves it Alive adds 0.1
\* to its age, an update that leaves it a Corpse leaves its age; in no step
\* does an agent's age fall
C10_LifecycleAndAge ==
    [][\A k \in 1..Len(cells) : \A n \in 1..Len(cells') :
           cells[k].id = cells'[n].id =>
               LET updated == /\ pc = "update"
                              /\ k \in pending
                              /\ pending' = pending \ {k}
               IN /\ (cells[k].state = Alive /\ cells'[n].state = Corpse)
                         => (updated /\ cells[k].energy <= 0)
                  /\ (updated /\ cells[k].state = Alive /\ cells[k].energy <= 0)
                         => cells'[n].state = Corpse
                  /\ (updated /\ cells'[n].state = Alive)
                         => cells'[n].age = cells[k].age + 1
                  /\ (updated /\ cells'[n].state = Corpse)
                         => cells'[n].age = cells[k].age
                  /\ cells'[n].age >= cells[k].age]_vars

\* an update has just turned an Alive agent into a Corpse
C10_Witness ==
    \E i \in Updated :
        /\ prev[i].state = Alive
        /\ prev[i].energy <= 0
        /\ cells[i].state = Corpse

-----------------------------------------------------------------------------
(* C11 *)

\* C11: at every point of the parallel stage, whatever the order in which
\* the agents were updated so far, each updated agent is Cell::update of
\* what it was when the stage began and every other agent is as it was; so
\* the stage ends in one state, the same for every order
C11_UpdateOrderIndependent ==
    pc = "update" =>
        /\ Len(cells) = Len(prev)
        /\ \A k \in 1..Len(cells) :
               cells[k] = IF k \in pending
                          THEN prev[k]
                          ELSE CellUpdate(prev[k], WorldWidth, WorldHeight)

\* the stage has updated some agents that move and not yet all of them
C11_Witness ==
    /\ pc = "update"
    /\ Cardinality(pending) >= 1
    /\ Cardinality(Updated) >= 2
    /\ \E i \in Updated : \E k \in pending :
           /\ i < k
           /\ cells[i] # prev[i]
           /\ prev[k].velocity_x # 0

-----------------------------------------------------------------------------
(* C12 *)

\* C12: an unpaused tick runs agent update, grid rebuild, collision
\* resolution with pruning, reproduction, grid rebuild, sensors, bookkeeping
\* and extinction check in this order; the grid rebuild starts only when
\* every agent is updated; each stage does its own work only; and a tick
\* that has begun runs through to the end of the extinction check
C12_StagesInOrder ==
    /\ [][/\ pc' \in StageAfter[pc]
          /\ (pc = "idle" /\ ticks' # ticks) =>
                 IF paused' THEN pc' = "idle"
                 ELSE pc' = "update" /\ pending' = 1..Len(cells')
          /\ ticks' # ticks => pc = "idle"
          /\ (pc = "update" /\ pc' = "update") =>
                 pending' \subseteq pending /\ pending' # pending
          /\ (pc = "update" /\ pc' = "detect") => pending = {}
          /\ grid' # grid => pc \in {"update", "grid"} /\ pc' # pc
          /\ pc' \in {"detect", "sensors"} => grid' = RebuildSpatialGrid(cells)
          /\ collisions' # collisions => pc = "detect"
          /\ cells' # cells =>
                 pc \in {"idle", "update", "apply", "prune", "reproduce", "sensors",
                         "extinction"}
          /\ (best_cell_genome' # best_cell_genome
              \/ last_best_cell_index' # last_best_cell_index) => pc = "stats"]_vars
    /\ (pc # "idle") ~> (pc = "idle")

\* two unpaused ticks have run all their stages
C12_Witness ==
    /\ pc = "idle"
    /\ ticks = 2
    /\ keys_used = 0
    /\ collisions # <<>>

-----------------------------------------------------------------------------
(* C13 *)

\* the bookkeeping of the tick has just run
AfterBookkeeping == pc = "extinction"

\* what an agent hands down: its brain and its heritable traits
GenomeOf(c) ==
    <<c.brain, c.radius, c.move_probability, c.turn_probability, c.speed, c.turn_rate,
      c.energy_chunk_size, c.species_multiplier, c.mass>>

\* C13 as stated: after the bookkeeping of a tick with an Alive agent,
\* best_cell_genome holds the brain and the heritable traits of the Alive
\* agent of the highest fitness, the lowest index on ties
C13_GenomeIsFittestAlive ==
    (AfterBookkeeping /\ AliveCount(cells) > 0) =>
        /\ IsSome(best_cell_genome)
        /\ \E i \in 1..Len(cells) :
               /\ cells[i].state = Alive
               /\ \A j \in 1..Len(cells) :
                      cells[j].state = Alive =>
                          /\ Fitness(cells[j]) <= Fitness(cells[i])
                          /\ j < i => Fitness(cells[j]) < Fitness(cells[i])
               /\ GenomeOf(Unwrap(best_cell_genome)) = GenomeOf(cells[i])

-----------------------------------------------------------------------------
(* C14 *)

\* where the agent the last bookkeeping found fittest stood when the
\* reproduction began, if it was still there
Tracked == {k \in 1..Len(prev) : prev[k].id = best_id}

\* C14 as stated: the reproduction calls save_best_neural_network exactly
\* when the agent the last bookkeeping found fittest reproduces, once, with
\* that agent's brain and generation, and with no other agent's
C14_SavesTheTrackedBest ==
    AfterReproduction =>
        /\ saves # <<>> <=> Tracked \cap Reproduced # {}
        /\ Len(saves) <= 1
        /\ \A n \in 1..Len(saves) :
               \E k \in Tracked : saves[n] = <<prev[k].brain, prev[k].generation>>

-----------------------------------------------------------------------------
(* C15 *)

\* a step that clears the population and rebuilds it: agents exist after it
\* and none of them existed before
Replaced == cells' # <<>> /\ Ids(cells) \cap Ids(cells') = {}

\* C15 as stated: the population is cleared and rebuilt only by the
\* extinction check of a tick that finds no Alive agent
C15_OnlyExtinctionRebuilds ==
    [][Replaced => (pc = "extinction" /\ AliveCount(cells) = 0)]_vars

\* C15, amended: the population is cleared and rebuilt only by
\* respawn_from_best with a recorded genome, which runs in the extinction
\* check of a tick that finds no Alive agent and in the keyboard handling of
\* a frame in which a key is pressed; the new agents are
\* min(max_cells, initial_cell_count) children of the genome
C15_OnlyRespawnRebuilds ==
    [][Replaced =>
           /\ IsSome(best_cell_genome)
           /\ \/ pc = "extinction" /\ AliveCount(cells) = 0
              \/ pc = "idle" /\ keys_used' = keys_used + 1
           /\ Len(cells') = SpawnCount(max_cells, initial_cell_count)
           /\ \A k \in 1..Len(cells') :
                  /\ cells'[k].parent = Unwrap(best_cell_genome).id
                  /\ cells'[k].generation = Unwrap(best_cell_genome).generation + 1
                  /\ cells'[k].age = 0]_vars

\* the first frame has rebuilt the population from the genome, by the key
C15_Witness ==
    /\ ticks = 1
    /\ keys_used = 1
    /\ pc = "update"
    /\ pending = 1..Len(cells)
    /\ cells # <<>>
    /\ IsSome(best_cell_genome)
    /\ \A k \in 1..Len(cells) :
           /\ cells[k].parent = Unwrap(best_cell_genome).id
           /\ cells[k].age = 0

-----------------------------------------------------------------------------
(* C16 *)

\* C16: max_cells changes only in the frame step of an unpaused tick in
\* which last_adjustment_time plus the frame time reaches 2.0 s; in such a
\* tick it falls by the step if the FPS of the window is below 30 and the cap
\* is above the step, rises by the step if the FPS is above 240, stays
\* otherwise, and last_adjustment_time becomes 0; in every other tick the cap
\* stays and an unpaused tick adds the frame time to last_adjustment_time
C16_CapAdjustment ==
    [][LET tick == ticks' = ticks + 1
           window == frame_times'
           delta_time == window[Len(window)]
           elapsed == last_adjustment_time + delta_time
           low == 1000 * Len(window) < 30 * SumSeq(window)
           high == 1000 * Len(window) > 240 * SumSeq(window)
       IN /\ max_cells' # max_cells => tick /\ ~paused' /\ elapsed >= 2000
          /\ last_adjustment_time' # last_adjustment_time => tick /\ ~paused'
          /\ (tick /\ ~paused' /\ elapsed >= 2000) =>
                 /\ last_adjustment_time' = 0
                 /\ low => max_cells' = IF max_cells > CELL_CAP_STEP
                                        THEN max_cells - CELL_CAP_STEP
                                        ELSE max_cells
                 /\ high => max_cells' = max_cells + CELL_CAP_STEP
                 /\ (~low /\ ~high) => max_cells' = max_cells
          /\ (tick /\ ~paused' /\ elapsed < 2000) =>
                 last_adjustment_time' = elapsed]_vars

\* an unpaused tick has reached the interval at a frame rate inside the band
C16_Witness ==
    /\ ticks > 0
    /\ ~paused
    /\ pc = "update"
    /\ last_adjustment_time = 0
    /\ current_fps >= TARGET_MIN_FPS
    /\ current_fps <= TARGET_MAX_FPS

-----------------------------------------------------------------------------
(* C17 *)

-----------------------------------------------------------------------------
(* C18 *)

\* the grid has just been rebuilt and is about to be queried, by the
\* collision detection or by the sensor computation
GridQueried == pc \in {"detect", "sensors"}

\* the places of the grid: a bucket and a position in it
Places == UNION {{<<b, p>> : p \in 1..Len(grid[b])} : b \in DOMAIN grid}

\* C18: where the grid is queried, every index of the agent array is at
\* exactly one place of the grid, no other value is in the grid, and every
\* index a query of the detection or of the sensors returns is a position of
\* the agent array
C18_GridHoldsEveryIndexOnce ==
    GridQueried =>
        /\ \A i \in 1..Len(cells) :
               Cardinality({bp \in Places : grid[bp[1]][bp[2]] = i}) = 1
        /\ \A bp \in Places : grid[bp[1]][bp[2]] \in 1..Len(cells)
        /\ \A i \in 1..Len(cells) :
               LET near == IF pc = "detect"
                           THEN QueryNearby(grid, cells[i].x, cells[i].y,
                                            3 * GetCurrentRadius(cells[i]))
                           ELSE QueryNearby(grid, cells[i].x, cells[i].y, SENSOR_RANGE)
               IN \A e \in 1..Len(near) : near[e] \in 1..Len(cells)

\* the grid is rebuilt for the sensors in a tick that has pruned an agent
\* and has seen a birth
C18_Witness ==
    /\ pc = "sensors"
    /\ indices_to_remove # <<>>
    /\ \E k \in 1..Len(cells) : cells[k].age = 0 /\ cells[k].parent # 0

-----------------------------------------------------------------------------
(* C19 *)

\* the bucket the documentation names for a position: both floored
\* coordinates taken modulo the size of the grid
FloorModBucket(x, y) ==
    RemEuclid(y \div BUCKET_SIZE, GridHeight) * GridWidth
        + RemEuclid(x \div BUCKET_SIZE, GridWidth)

\* C19: insert stores an index in the bucket
\* (floor(x/b) mod gridW, floor(y/b) mod gridH) of its position, for every
\* position, the negative coordinates of a child spawned beyond the left or
\* the top edge included
C19_InsertUsesFloorMod ==
    GridQueried =>
        \A bp \in Places :
            bp[1] = FloorModBucket(cells[grid[bp[1]][bp[2]]].x,
                                   cells[grid[bp[1]][bp[2]]].y)

-----------------------------------------------------------------------------
(* C20 *)

\* coordinates to query from: beyond the left edge and on both sides of the
\* seam
QueryCoords == {-100, 50, WorldWidth - 50}

\* the points to query from: on the diagonal, and at the end of the first
\* bucket
QueryPoints == {<<c, c>> : c \in QueryCoords} \cup {<<850, 50>>}

QueryRadii == {0, 1000, SENSOR_RANGE}

InsideWorld(c) ==
    /\ 0 <= c.x /\ c.x < WorldWidth
    /\ 0 <= c.y /\ c.y < WorldHeight

\* the squared toroidal distance between an agent and a point
ToroidalSquared(c, q) ==
    LET dx == WrapDelta(c.x, q[1], WorldWidth)
        dy == WrapDelta(c.y, q[2], WorldHeight)
    IN dx * dx + dy * dy

Returned(near, i) == \E e \in 1..Len(near) : near[e] = i

\* C20: once the grid is rebuilt, a query from any point with any radius
\* returns the index of every agent that stands inside the world within
\* that radius of the point, the distance taken on the torus
C20_QueryReturnsEveryNeighbour ==
    GridQueried =>
        \A q \in QueryPoints, r \in QueryRadii :
            LET near == QueryNearby(grid, q[1], q[2], r)
            IN \A i \in 1..Len(cells) :
                   (InsideWorld(cells[i]) /\ ToroidalSquared(cells[i], q) <= r * r)
                       => Returned(near, i)

\* in a world whose width is not a multiple of the bucket size, the grid is
\* rebuilt with an agent inside the world left of the seam, and a query
\* point right of the seam has it within the radius across the seam
C20_Witness ==
    /\ GridQueried
    /\ GridWidth * BUCKET_SIZE > WorldWidth
    /\ \E i \in 1..Len(cells) :
           /\ InsideWorld(cells[i])
           /\ \E q \in QueryPoints, r \in QueryRadii :
                  /\ 0 <= q[1] /\ q[1] < BUCKET_SIZE
                  /\ 2 * (cells[i].x - q[1]) > WorldWidth
                  /\ ToroidalSquared(cells[i], q) <= r * r

-----------------------------------------------------------------------------
(* C21 *)

\* update_sensors has run in this tick
AfterSensors == pc = "stats"

\* the agents a sensor list names
Sensed(c) == {c.nearest_cells[e][1] : e \in 1..Len(c.nearest_cells)}

\* the other agents within the sensor range of agent i, on the torus
WithinRange(i) ==
    {j \in 1..Len(cells) :
        /\ j # i
        /\ DistanceSquared(cells[j], cells[i]) <= SENSOR_RANGE * SENSOR_RANGE}

\* agent a comes before agent b in the priority of agent i's sensors: a
\* Corpse before an Alive agent, then more energy, then nearer
ComesFirst(i, a, b) ==
    LET alive(j) == IF cells[j].state = Alive THEN 1 ELSE 0
        far(j) == DistanceSquared(cells[j], cells[i])
    IN \/ alive(a) < alive(b)
       \/ alive(a) = alive(b) /\ cells[a].energy > cells[b].energy
       \/ alive(a) = alive(b) /\ cells[a].energy = cells[b].energy /\ far(a) < far(b)

-----------------------------------------------------------------------------
(* C22 *)

\* output a (an index from 0) is a maximal output of the forward pass
IsMaximal(brain, a) ==
    \A j \in 1..Len(Forward(brain)) : Forward(brain)[j] <= Forward(brain)[a + 1]

\* the indices (from 0) of the maximal outputs
Maxima(brain) == {a \in 0..(Len(Forward(brain)) - 1) : IsMaximal(brain, a)}

\* C22 as stated: get_best_action returns the index of a maximal output,
\* the smallest one when several outputs are maximal
C22_TiesGoToFirst ==
    \A k \in 1..Len(cells) :
        /\ GetBestAction(cells[k].brain) \in Maxima(cells[k].brain)
        /\ \A a \in Maxima(cells[k].brain) : GetBestAction(cells[k].brain) <= a

\* C22 as amended: get_best_action returns the index of a maximal output,
\* the largest one when several outputs are maximal
C22_TiesGoToLast ==
    \A k \in 1..Len(cells) :
        /\ GetBestAction(cells[k].brain) \in Maxima(cells[k].brain)
        /\ \A a \in Maxima(cells[k].brain) : GetBestAction(cells[k].brain) >= a

\* an Alive agent whose outputs are all equal has been updated and has paid
\* for the forward action, the last of its four actions
C22_Witness ==
    /\ pc = "update"
    /\ \E k \in 1..Len(cells) \ pending :
           /\ prev[k].state = Alive
           /\ Cardinality(Maxima(prev[k].brain)) = Len(prev[k].brain)
           /\ GetBestAction(prev[k].brain) = 3
           /\ cells[k].energy
                  = prev[k].energy - METABOLISM_ENERGY_LOSS - ForwardCost(cells[k])

-----------------------------------------------------------------------------
(* C23 *)

\* the agent as decide_action finds it in Cell::update: after the state
\* transition, the ageing, the cap and the metabolism
BeforeAction(c) ==
    [CapEnergy(UpdateAge(UpdateState(c))) EXCEPT !.energy = @ - METABOLISM_ENERGY_LOSS]

\* the agents of the update stage that have run decide_action
Decided == {k \in 1..Len(cells) \ pending : UpdateState(prev[k]).state = Alive}

\* an action of cost `cost` that maps c to d was rejected without any effect,
\* or was paid in full out of sufficient energy
RejectedOrPaid(c, d, cost) ==
    IF c.energy < cost
    THEN d = c
    ELSE d.energy = c.energy - cost /\ d.energy >= 0

\* C23: each of turn_left, turn_right and forward leaves an agent whose
\* energy is below the cost of the action exactly as it was, and otherwise
\* takes effect and lowers the energy by exactly the cost, not below 0
C23_ActionRejectedOrPaid ==
    pc = "update" =>
        \A k \in Decided :
            LET c == BeforeAction(prev[k])
            IN /\ RejectedOrPaid(c, TurnLeft(c), TurnCost(c))
               /\ RejectedOrPaid(c, TurnRight(c), TurnCost(c))
               /\ RejectedOrPaid(c, MoveForward(c), ForwardCost(c))
               /\ c.energy >= TurnCost(c) =>
                      /\ TurnLeft(c).angle_velocity = c.angle_velocity - c.turn_rate
                      /\ TurnRight(c).angle_velocity = c.angle_velocity + c.turn_rate
               /\ c.energy >= ForwardCost(c) =>
                      /\ MoveForward(c).velocity_x
                             = RoundDiv(Cos100(c.angle) * c.speed, 100)
                      /\ MoveForward(c).velocity_y
                             = RoundDiv(Sin100(c.angle) * c.speed, 100)
               /\ cells[k] = Integrate(DecideAction(c), WorldWidth, WorldHeight)

\* one agent has been updated whose network chose a turn it could not pay
\* for, and one whose network chose a turn it could pay for
C23_Witness ==
    /\ pc = "update"
    /\ \E k \in Decided :
           /\ GetBestAction(prev[k].brain) = 1
           /\ BeforeAction(prev[k]).energy < TurnCost(BeforeAction(prev[k]))
           /\ cells[k].energy = prev[k].energy - METABOLISM_ENERGY_LOSS
    /\ \E k \in Decided :
           /\ GetBestAction(prev[k].brain) \in {1, 2}
           /\ cells[k].energy < prev[k].energy - METABOLISM_ENERGY_LOSS

-----------------------------------------------------------------------------
(* C24 *)

\* every heritable trait of c lies in its declared range
TraitsInRange(c) ==
    /\ SPEED_MIN <= c.speed /\ c.speed <= SPEED_MAX
    /\ RADIUS_MIN <= c.radius /\ c.radius <= RADIUS_MAX
    /\ PROBABILITY_MIN <= c.move_probability /\ c.move_probability <= PROBABILITY_MAX
    /\ PROBABILITY_MIN <= c.turn_probability /\ c.turn_probability <= PROBABILITY_MAX
    /\ TURN_RATE_MIN <= c.turn_rate /\ c.turn_rate <= TURN_RATE_MAX
    /\ CHUNK_MIN <= c.energy_chunk_size /\ c.energy_chunk_size <= CHUNK_MAX
    /\ MULTIPLIER_MIN <= c.species_multiplier /\ c.species_multiplier <= MULTIPLIER_MAX
    /\ MASS_MIN <= c.mass /\ c.mass <= MASS_MAX

\* C24: the heritable traits of every agent, the children returned by
\* spawn_child included, lie in their declared ranges
C24_TraitsStayInRange ==
    /\ \A k \in 1..Len(cells) : TraitsInRange(cells[k])
    /\ IsSome(best_cell_genome) => TraitsInRange(Unwrap(best_cell_genome))

\* a variance of the model's draws takes the value out of lo..hi
Escapes(value, lo, hi) ==
    \E d \in {WestDraw, NorthEastDraw} : \E t \in 1..8 :
        LET mutated == RoundDiv(value * (1000 + d.variance[t]), 1000)
        IN mutated < lo \/ mutated > hi

\* a newborn stands next to its parent, which holds a radius and a mass at a
\* bound that a variance would have taken them beyond, and the newborn
\* holds the bounds
C24_Witness ==
    \E k, j \in 1..Len(cells) :
        /\ cells[k].parent = cells[j].id
        /\ cells[k].age = 0
        /\ Escapes(cells[j].radius, RADIUS_MIN, RADIUS_MAX)
        /\ Escapes(cells[j].mass, MASS_MIN, MASS_MAX)
        /\ cells[k].radius \in {RADIUS_MIN, RADIUS_MAX}
        /\ cells[k].mass \in {MASS_MIN, MASS_MAX}

-----------------------------------------------------------------------------
(* C25 *)

\* C25: a child of the reproduction just run is Alive, of age 0, without
\* children, accumulated energy or sensor readings, one generation after
\* its parent; spawn_child hands it over with energy 0; and the parent is
\* as it was, but for the energy and the child count handle_reproduction
\* sets
C25_ChildStartsFresh ==
    AfterReproduction =>
        /\ \A n \in Newborn :
               \E k \in Reproduced :
                   /\ cells[n].parent = prev[k].id
                   /\ cells[n].state = Alive
                   /\ cells[n].age = 0
                   /\ cells[n].children_count = 0
                   /\ cells[n].total_energy_accumulated = 0
                   /\ cells[n].nearest_cells = <<>>
                   /\ cells[n].generation = prev[k].generation + 1
        /\ \A k \in 1..Len(prev) : \A d \in {WestDraw, NorthEastDraw} :
               SpawnChild(prev[k], d, next_id).energy = 0
        /\ \A k \in Reproduced :
               cells[k] = [prev[k] EXCEPT !.energy = cells[k].energy,
                                          !.children_count = @ + 1]

\* a child has been born to a parent that has aged, fed and sensed
C25_Witness ==
    /\ AfterReproduction
    /\ \E n \in Newborn : \E k \in Reproduced :
           /\ cells[n].parent = prev[k].id
           /\ prev[k].age > 0
           /\ prev[k].total_energy_accumulated > 0
           /\ prev[k].nearest_cells # <<>>

-----------------------------------------------------------------------------
(* C26 *)

\* the three sizes of a network
Sizes(n) == <<n.input_size, n.hidden_size, n.output_size>>

\* the shape of the four arrays of a network
Shape(n) ==
    <<Len(n.weights_ih), {Len(n.weights_ih[i]) : i \in 1..Len(n.weights_ih)},
      Len(n.bias_h),
      Len(n.weights_ho), {Len(n.weights_ho[i]) : i \in 1..Len(n.weights_ho)},
      Len(n.bias_o)>>

\* C26: a mutate call with rate 0 leaves the network as it was, weights and
\* biases, and a mutate call with any rate leaves the three sizes as they
\* were
C26_ZeroRateChangesNothing ==
    [][IsSome(nn) =>
          /\ nn_rate' = 0 => nn' = nn
          /\ Sizes(Unwrap(nn')) = Sizes(Unwrap(nn))
          /\ Shape(Unwrap(nn')) = Shape(Unwrap(nn))]_vars

\* a network that earlier calls have changed has just been mutated with
\* rate 0
C26_Witness ==
    /\ IsSome(nn)
    /\ nn_calls > 1
    /\ nn_rate = 0
    /\ \A r \in NewDraws : Unwrap(nn) # NewNetwork(NetInputs, NetOutputs, r)

-----------------------------------------------------------------------------
(* C27 *)

\* every weight and every bias of a network
Weights(n) ==
    UNION {{n.weights_ih[i][j] : j \in 1..Len(n.weights_ih[i])} :
              i \in 1..Len(n.weights_ih)}
    \cup {n.bias_h[i] : i \in 1..Len(n.bias_h)}
    \cup UNION {{n.weights_ho[i][j] : j \in 1..Len(n.weights_ho[i])} :
                   i \in 1..Len(n.weights_ho)}
    \cup {n.bias_o[i] : i \in 1..Len(n.bias_o)}

\* C27: every weight and every bias of a network created by new lies in
\* [-2, 2] after any number of mutate calls
C27_WeightsWithinLimit ==
    IsSome(nn) => \A w \in Weights(Unwrap(nn)) : -NN_LIMIT <= w /\ w <= NN_LIMIT

\* mutate calls have brought one weight to the upper limit and another to
\* the lower limit
C27_Witness ==
    /\ IsSome(nn)
    /\ nn_calls > 0
    /\ NN_LIMIT \in Weights(Unwrap(nn))
    /\ -NN_LIMIT \in Weights(Unwrap(nn))

-----------------------------------------------------------------------------
(* C28 *)

\* C28: after Cell::update the position is inside the world,
\* 0 <= x < world_width and 0 <= y < world_height, whatever the position and
\* the velocity before the call
C28_PositionInsideWorld ==
    (IsSome(body) /\ body_updates > 0) =>
        /\ 0 <= Unwrap(body).x /\ Unwrap(body).x < F32_WORLD_WIDTH
        /\ 0 <= Unwrap(body).y /\ Unwrap(body).y < F32_WORLD_HEIGHT

-----------------------------------------------------------------------------
(* C29 *)

\* C29: normalize_sensors returns 20 values, each in [-1, 1] for the
\* readings update_sensors has recorded, and the four values of every slot
\* beyond the recorded neighbours are -1
C29_TwentyInputsWithinOne ==
    \A k \in 1..Len(cells) :
        LET inputs == NormalizeSensors(cells[k])
            n == Len(cells[k].nearest_cells)
        IN /\ Len(inputs) = 20
           /\ \A e \in 1..Len(inputs) : -1000 <= inputs[e] /\ inputs[e] <= 1000
           /\ \A e \in (4 * n + 1)..Len(inputs) : inputs[e] = -1000

\* update_sensors has just given one agent five readings, one of them of a
\* Corpse, and another agent some readings but fewer than five
C29_Witness ==
    /\ AfterSensors
    /\ \E k \in 1..Len(cells) :
           /\ Len(cells[k].nearest_cells) = SENSOR_SLOTS
           /\ \E e \in 1..SENSOR_SLOTS : cells[k].nearest_cells[e][5] = 0
    /\ \E k \in 1..Len(cells) :
           /\ Len(cells[k].nearest_cells) > 0
           /\ Len(cells[k].nearest_cells) < SENSOR_SLOTS

-----------------------------------------------------------------------------
(* C30 *)

\* the last n elements of q, all of q if it is shorter
LastOf(q, n) == SubSeq(q, Max(1, Len(q) - n + 1), Len(q))

\* a World::update call begins in this step
FrameBegins == ticks' # ticks

\* C30: every World::update call, paused or not, appends its frame time to
\* the window and keeps the last FPS_SAMPLE_SIZE of them in arrival order,
\* and nothing else changes the window; the window never holds more than
\* FPS_SAMPLE_SIZE frame times, and once it holds one, current_fps is
\* 1 / their average if that is positive and 60 otherwise
C30_FpsWindow ==
    /\ [][IF FrameBegins
          THEN \E delta_time \in FirstFrameTimes :
                   frame_times' = LastOf(frame_times \o <<delta_time>>, FPS_SAMPLE_SIZE)
          ELSE frame_times' = frame_times /\ current_fps' = current_fps]_vars
    /\ [](/\ Len(frame_times) <= FPS_SAMPLE_SIZE
          /\ frame_times # <<>> =>
                 current_fps = IF SumSeq(frame_times) > 0
                               THEN RoundDiv(100000 * Len(frame_times),
                                             SumSeq(frame_times))
                               ELSE 6000)

\* two paused frames have pushed a stall and then a short frame into a
\* window that was full before them
C30_Witness ==
    /\ paused
    /\ ticks = 2
    /\ Len(frame_times) = FPS_SAMPLE_SIZE
    /\ frame_times[Len(frame_times) - 1] = 2000
    /\ frame_times[Len(frame_times)] = 4

-----------------------------------------------------------------------------
(* C31 *)

\* C31: a forward call aborts exactly when the number of inputs differs from
\* input_size and otherwise returns output_size values; a brain with the
\* sizes of NeuralNetwork::new(20, 4), cloned and mutated or not, never
\* aborts on the inputs normalize_sensors gives decide_action
C31_ForwardAbortsOnSizeMismatch ==
    IsSome(nn_out) =>
        LET n == Unwrap(nn)
            call == Unwrap(nn_out)
        IN /\ call.result.aborted <=> Len(call.inputs) # n.input_size
           /\ ~call.result.aborted => Len(call.result.outputs) = n.output_size
           /\ Sizes(n) \in {Sizes(NewNetwork(sz[1], sz[2], <<0, 0>>)) : sz \in NetworkSizes}
           /\ (n.input_size = BRAIN_INPUTS /\ call.inputs \in SensorInputs) =>
                  ~call.result.aborted

\* a brain of 20 inputs and 4 outputs that was cloned and mutated, with a
\* weight no new draws, has answered the sensor inputs of an agent with four
\* values
C31_Witness ==
    /\ IsSome(nn) /\ IsSome(nn_out)
    /\ nn_calls = MaxClones
    /\ nn_rate > 0
    /\ \E w \in Weights(Unwrap(nn)) : w > 100
    /\ Unwrap(nn).input_size = BRAIN_INPUTS
    /\ Unwrap(nn_out).inputs \in SensorInputs
    /\ ~Unwrap(nn_out).result.aborted
    /\ Len(Unwrap(nn_out).result.outputs) = BRAIN_OUTPUTS

-----------------------------------------------------------------------------
(* C32 *)

\* C32: when the detection of check_collisions is over, every Alive agent
\* that overlaps a Corpse anywhere in the array, on the torus, has a transfer
\* recorded, whether or not the Corpse lies across the seam
C32_OverlappingCorpseIsFound ==
    AfterDetection =>
        \A i \in 1..Len(cells) :
            (/\ cells[i].state = Alive
             /\ \E j \in 1..Len(cells) : IsOverlappingCorpse(i, j))
            => \E m \in 1..Len(collisions) :
                   /\ collisions[m][1] = i
                   /\ IsOverlappingCorpse(i, collisions[m][2])

\* a transfer was recorded between an Alive agent and a Corpse on the other
\* side of both seams, in a world whose last grid column is partly outside
C32_Witness ==
    /\ AfterDetection
    /\ GridWidth * BUCKET_SIZE > WorldWidth
    /\ \E m \in 1..Len(collisions) :
           LET a == cells[collisions[m][1]]
               c == cells[collisions[m][2]]
           IN /\ 2 * Abs(a.x - c.x) > WorldWidth
              /\ 2 * Abs(a.y - c.y) > WorldHeight
              /\ IsOverlappingCorpse(collisions[m][1], collisions[m][2])

-----------------------------------------------------------------------------
(* C33 *)

\* C33: a Corpse has energy <= 0, and in every step an agent that is a
\* Corpse and is still in the array after the step is still a Corpse, with
\* an energy that is not larger and the same age
C33_CorpseIsAbsorbing ==
    /\ [](\A k \in 1..Len(cells) : cells[k].state = Corpse => cells[k].energy <= 0)
    /\ [][\A k \in 1..Len(cells) : \A n \in 1..Len(cells') :
              (cells[k].id = cells'[n].id /\ cells[k].state = Corpse) =>
                  /\ cells'[n].state = Corpse
                  /\ cells'[n].energy <= cells[k].energy
                  /\ cells'[n].age = cells[k].age]_vars

\* in the second tick or later a Corpse of negative energy has lost a chunk
\* to an Alive agent and is still a Corpse
C33_Witness ==
    /\ AfterApply
    /\ ticks >= 2
    /\ \E m \in 1..Len(collisions) :
           LET c == collisions[m][2]
           IN /\ cells[c].state = Corpse
              /\ cells[c].energy < prev[c].energy
              /\ prev[c].energy < 0

-----------------------------------------------------------------------------
(* C34 *)

\* C34: every Alive agent has energy >= -100, and every agent a pruning
\* removes is a Corpse
C34_PruningRemovesOnlyCorpses ==
    /\ \A k \in 1..Len(cells) :
           cells[k].state = Alive => cells[k].energy >= DEPLETED_CELL_ENERGY
    /\ AfterPrune =>
           \A e \in 1..Len(indices_to_remove) :
               prev[indices_to_remove[e]].state = Corpse

\* a pruning has removed an agent and has left an Alive agent whose energy
\* is below 0
C34_Witness ==
    /\ AfterPrune
    /\ indices_to_remove # <<>>
    /\ \E i \in 1..Len(cells) : cells[i].state = Alive /\ cells[i].energy < 0

-----------------------------------------------------------------------------
(* C35 *)

\* C35: while unpaused ticks keep running, an agent that is a Corpse is
\* eventually removed from the array; every Cell::update lowers the energy
\* of a Corpse, and a pruning removes the agent exactly when its energy is
\* below -100
C35_CorpseIsEventuallyRemoved ==
    /\ (IsSome(corpse) ~> corpse = None)
    /\ [][(IsSome(corpse) /\ corpse_pc = "update" /\ corpse_pc' = "apply")
              => /\ Unwrap(corpse').state = Corpse
                 /\ Unwrap(corpse').energy < Unwrap(corpse).energy]_vars
    /\ [][(IsSome(corpse) /\ corpse_pc = "prune")
              => (corpse' = None <=> Unwrap(corpse).energy < DEPLETED_CELL_ENERGY)]_vars

\* the agent is at the pruning that removes it: its decay alone has just
\* taken its energy across the floor
C35_Witness ==
    /\ IsSome(corpse)
    /\ corpse_pc = "prune"
    /\ Unwrap(corpse).state = Corpse
    /\ Unwrap(corpse).energy < DEPLETED_CELL_ENERGY
    /\ Unwrap(corpse).energy + CORPSE_DECAY_RATE >= DEPLETED_CELL_ENERGY

-----------------------------------------------------------------------------
(* C36 *)

\* C36: at the end of every unpaused tick a best genome is on record and at
\* least one agent is Alive, and no step clears a genome that is on record
C36_SomeoneAliveAfterEveryTick ==
    /\ [](EndOfTick => (IsSome(best_cell_genome) /\ AliveCount(cells) >= 1))
    /\ [][IsSome(best_cell_genome) => IsSome(best_cell_genome')]_vars

\* a tick that found every agent dead has ended with a single Alive agent,
\* the cap being 1 and below the configured initial count
C36_Witness ==
    /\ EndOfTick
    /\ AliveCount(prev) = 0
    /\ Len(prev) > 0
    /\ max_cells = 1
    /\ max_cells < initial_cell_count
    /\ AliveCount(cells) = 1

-----------------------------------------------------------------------------
(* C37 *)

\* the radii of the queries: the sensor range, and a radius whose window of
\* buckets is wider than the grid
WindowRadii == {SENSOR_RANGE, SENSOR_RANGE + BUCKET_SIZE}

\* the window of buckets a query of this radius visits fits into the grid
WindowFits(radius) ==
    LET side == 2 * (CeilDiv(radius, BUCKET_SIZE) + 1) + 1
    IN GridWidth >= side /\ GridHeight >= side

NoDuplicates(q) == Cardinality({q[e] : e \in 1..Len(q)}) = Len(q)

\* C37: when the window of a query fits into the grid, the query
\* update_sensors makes from the position of an agent returns no index
\* twice; and after update_sensors no agent holds a neighbour in two sensor
\* slots
C37_QueryReturnsNoIndexTwice ==
    /\ pc = "sensors" =>
           \A r \in WindowRadii :
               WindowFits(r) =>
                   \A i \in 1..Len(cells) :
                       NoDuplicates(QueryNearby(grid, cells[i].x, cells[i].y, r))
    /\ (AfterSensors /\ WindowFits(SENSOR_RANGE)) =>
           \A i \in 1..Len(cells) :
               NoDuplicates([e \in 1..Len(cells[i].nearest_cells) |->
                                cells[i].nearest_cells[e][1]])

\* the sensor query of an agent visits a window as high as the grid, or one
\* bucket less, and returns every agent of a population of three or more;
\* a wider radius would not fit
C37_Witness ==
    /\ pc = "sensors"
    /\ Len(cells) >= 3
    /\ WindowFits(SENSOR_RANGE)
    /\ ~WindowFits(SENSOR_RANGE + BUCKET_SIZE)
    /\ \E i \in 1..Len(cells) :
           Len(QueryNearby(grid, cells[i].x, cells[i].y, SENSOR_RANGE)) = Len(cells)

-----------------------------------------------------------------------------
(* C38 *)

\* the keys that change simulation_speed
SpeedKeys == {"Equal", "Minus", "Key1"}

\* this step begins a World::update call in which the R key is not pressed
FrameWithoutReset ==
    \E delta_time \in FirstFrameTimes, keys \in KeyInputs, draws \in DrawChoices(0) :
        "R" \notin keys /\ BeginFrame(delta_time, keys, draws)

\* C38 as stated: a World::update call that finds the world paused, the R
\* key not being pressed, leaves the agents, max_cells, the adjustment timer
\* and the best genome as they were
C38_PausedFrameChangesOnlyFps ==
    [][(paused /\ FrameWithoutReset) =>
           UNCHANGED <<cells, max_cells, last_adjustment_time, best_cell_genome>>]_vars

\* C38, amended: a World::update call in which the R key is not pressed and
\* which is paused when it reaches the pause test, after the Space key has
\* been handled, ends there: the agents, the grid, max_cells, the adjustment
\* timer and the best genome are as they were; paused changes only by the
\* Space key and simulation_speed only by a speed key
C38_FrameLeftPausedChangesOnlyFps ==
    [][\A delta_time \in FirstFrameTimes, keys \in KeyInputs, draws \in DrawChoices(0) :
           ("R" \notin keys /\ BeginFrame(delta_time, keys, draws) /\ paused') =>
               /\ pc' = "idle"
               /\ UNCHANGED <<cells, grid, max_cells, last_adjustment_time,
                              best_cell_genome, last_best_cell_index, next_id>>
               /\ "Space" \notin keys => paused' = paused
               /\ keys \cap SpeedKeys = {} => simulation_speed' = simulation_speed
               /\ frame_times' = PushFrame(frame_times, delta_time)]_vars

\* a paused world has gone through a frame of 2 s without a key: the frame
\* is in the window and the FPS is below the band, and the adjustment that
\* was due 4 ms later has not been made
C38_Witness ==
    /\ paused
    /\ pc = "idle"
    /\ ticks >= 1
    /\ keys_used = 0
    /\ AliveCount(cells) >= 1
    /\ frame_times[Len(frame_times)] = 2000
    /\ current_fps < TARGET_MIN_FPS
    /\ last_adjustment_time = ADJUSTMENT_INTERVAL - 4
    /\ max_cells = initial_cell_count

====
